---- MODULE Spec2Model ----
(***************************************************************************)
(* A model of the input-method core of ow_cat: the pinyin buffer           *)
(* (PinyinConverter), the word table (DictionaryManager), the prediction   *)
(* adapter (PredictionEngine) and the session controller (Engine::Impl).   *)
(*                                                                         *)
(* Representation.  A std::string is a sequence of code points: ASCII      *)
(* text is written Str("ni hao"), Chinese text as its code points, and     *)
(* std::string::length() is the UTF-8 byte count (ByteLength).  Scores     *)
(* and thresholds are doubles; a double d is kept as the greatest integer  *)
(* n such that the double n/10 is not above d, so a multiple of 0.1 is     *)
(* kept in tenths (a score of 48.0 is 480, a threshold of 0.5 is 5) and a  *)
(* sum that falls just short of one is kept as the tenth below it (the     *)
(* double 0.6 + 0.3 is 0.8999999999999999 and is kept as 8).  Comparisons  *)
(* with multiples of 0.1 are exact in this form.  The three callbacks of   *)
(* the engine are registered; every call of one is appended to notes,      *)
(* which holds the notifications of the last public operation.             *)
(***************************************************************************)
EXTENDS Integers, Sequences, FiniteSets, TLC

VARIABLES
    constructed_with,      \* the EngineConfig given to the constructor
    config_,               \* Engine::Impl::config_
    state_,                \* Engine::Impl::state_
    composition_,          \* Engine::Impl::composition_
    candidates_,           \* Engine::Impl::candidates_
    current_pinyin_,       \* PinyinConverter::current_pinyin_
    words,                 \* the rows of table words of the dictionary database
    prediction_engine_,    \* Engine::Impl::prediction_engine_ and the PredictionEngine::Impl it owns
    last,                  \* the last public operation: its name, argument and return value
    notes,                 \* the callbacks invoked by the last public operation, in order
    gen_calls,             \* the number of LlamaPredictor::generateText calls of the last operation
    dict_candidates,       \* updateCandidates' local dict_candidates, of its last run
    predicted_candidates,  \* updateCandidates' local predicted_candidates, of its last run
    upd_state,             \* state_ when the last operation's updateCandidates returned, or "none"
    scen,                  \* how many keys of the sequence n,i,h,a,o were typed since Init, or -1
    seen,                  \* what the engine's getters return during each callback of notes
    pattern_order          \* the keys of user_patterns_, in the order they were entered

vars == <<constructed_with, config_, state_, composition_, candidates_, current_pinyin_, words,
          prediction_engine_, last, notes, gen_calls, dict_candidates,
          predicted_candidates, upd_state, scen, seen, pattern_order>>

----------------------------------------------------------------------------
(* Strings *)

LOWER == "abcdefghijklmnopqrstuvwxyz"
UPPER == "ABCDEFGHIJKLMNOPQRSTUVWXYZ"
DIGITS == "0123456789"

\* Whether the one-character string ch occurs in s, and where.
In(ch, s) == \E i \in 1..Len(s) : SubSeq(s, i, i) = ch
IndexIn(ch, s) == CHOOSE i \in 1..Len(s) : SubSeq(s, i, i) = ch

\* The ASCII code of a character, given as a one-character string.
Ord(ch) ==
    IF In(ch, LOWER) THEN 96 + IndexIn(ch, LOWER)
    ELSE IF In(ch, UPPER) THEN 64 + IndexIn(ch, UPPER)
    ELSE IF In(ch, DIGITS) THEN 47 + IndexIn(ch, DIGITS)
    ELSE CASE ch = " " -> 32
           [] ch = "%" -> 37
           [] ch = "+" -> 43
           [] ch = "-" -> 45
           [] ch = "_" -> 95

\* The std::string with the characters of the ASCII literal s.
Str(s) == [i \in 1..Len(s) |-> Ord(SubSeq(s, i, i))]

\* The characters the code names.
Ch0 == Ord("0")
Ch1 == Ord("1")
Ch9 == Ord("9")
ChLowerA == Ord("a")
ChLowerZ == Ord("z")
ChUpperA == Ord("A")
ChUpperZ == Ord("Z")
ChBlank == Ord(" ")
ChPercent == Ord("%")
ChUnderscore == Ord("_")
ChMinus == Ord("-")
ChPlus == Ord("+")

\* std::tolower / SQLite's ASCII case folding of one character.
ToLower(c) == IF c >= ChUpperA /\ c <= ChUpperZ THEN c + 32 ELSE c

\* The number of UTF-8 bytes of one code point.
UTF8Len(c) == IF c < 128 THEN 1 ELSE IF c < 2048 THEN 2 ELSE IF c < 65536 THEN 3 ELSE 4

\* std::string::length(): the number of bytes.
RECURSIVE ByteLength(_)
ByteLength(s) == IF s = <<>> THEN 0 ELSE UTF8Len(Head(s)) + ByteLength(Tail(s))

\* SQL length(): the number of characters.
CharLength(s) == Len(s)

\* s.substr(0, Len(p)) == p, for Len(s) >= Len(p).
IsPrefix(p, s) == Len(p) <= Len(s) /\ SubSeq(s, 1, Len(p)) = p

\* s.find(p): the least 0-based position where p occurs in s, or -1 (npos).
Find(s, p) ==
    LET hits == {i \in 0..(Len(s) - Len(p)) : SubSeq(s, i + 1, i + Len(p)) = p}
    IN  IF hits = {} THEN -1 ELSE CHOOSE i \in hits : \A j \in hits : i <= j

\* SQLite's LIKE: % matches any run of characters, _ any one character, and
\* ASCII letters match without regard to case.
RECURSIVE Like(_, _)
Like(pat, s) ==
    IF pat = <<>> THEN s = <<>>
    ELSE IF Head(pat) = ChPercent
         THEN Like(Tail(pat), s) \/ (s # <<>> /\ Like(pat, Tail(s)))
         ELSE /\ s # <<>>
              /\ (Head(pat) = ChUnderscore \/ ToLower(Head(pat)) = ToLower(Head(s)))
              /\ Like(Tail(pat), Tail(s))

\* The sequences that list every element of the finite set S exactly once.
Orderings(S) ==
    {f \in [1..Cardinality(S) -> S] : \A i, j \in 1..Cardinality(S) : i # j => f[i] # f[j]}

\* The set of the elements of the sequence s.
Range(s) == {s[i] : i \in 1..Len(s)}

\* The first n elements of s (all of s when it is shorter).
Take(s, n) == SubSeq(s, 1, IF n < Len(s) THEN n ELSE Len(s))

Min(a, b) == IF a < b THEN a ELSE b
Max(a, b) == IF a > b THEN a ELSE b

----------------------------------------------------------------------------
(* PinyinConverter *)

STANDARD_PINYINS == {
    Str("a"), Str("ai"), Str("an"), Str("ang"), Str("ao"),
    Str("ba"), Str("bai"), Str("ban"), Str("bang"), Str("bao"), Str("bei"), Str("ben"), Str("beng"), Str("bi"), Str("bian"), Str("biao"), Str("bie"), Str("bin"), Str("bing"), Str("bo"), Str("bu"),
    Str("ca"), Str("cai"), Str("can"), Str("cang"), Str("cao"), Str("ce"), Str("cen"), Str("ceng"), Str("cha"), Str("chai"), Str("chan"), Str("chang"), Str("chao"), Str("che"), Str("chen"), Str("cheng"), Str("chi"), Str("chong"), Str("chou"), Str("chu"), Str("chuai"), Str("chuan"), Str("chuang"), Str("chui"), Str("chun"), Str("chuo"), Str("ci"), Str("cong"), Str("cou"), Str("cu"), Str("cuan"), Str("cui"), Str("cun"), Str("cuo"),
    Str("da"), Str("dai"), Str("dan"), Str("dang"), Str("dao"), Str("de"), Str("deng"), Str("di"), Str("dian"), Str("diao"), Str("die"), Str("ding"), Str("diu"), Str("dong"), Str("dou"), Str("du"), Str("duan"), Str("dui"), Str("dun"), Str("duo"),
    Str("e"), Str("en"), Str("er"),
    Str("fa"), Str("fan"), Str("fang"), Str("fei"), Str("fen"), Str("feng"), Str("fo"), Str("fou"), Str("fu"),
    Str("ga"), Str("gai"), Str("gan"), Str("gang"), Str("gao"), Str("ge"), Str("gei"), Str("gen"), Str("geng"), Str("gong"), Str("gou"), Str("gu"), Str("gua"), Str("guai"), Str("guan"), Str("guang"), Str("gui"), Str("gun"), Str("guo"),
    Str("ha"), Str("hai"), Str("han"), Str("hang"), Str("hao"), Str("he"), Str("hei"), Str("hen"), Str("heng"), Str("hong"), Str("hou"), Str("hu"), Str("hua"), Str("huai"), Str("huan"), Str("huang"), Str("hui"), Str("hun"), Str("huo"),
    Str("ji"), Str("jia"), Str("jian"), Str("jiang"), Str("jiao"), Str("jie"), Str("jin"), Str("jing"), Str("jiong"), Str("jiu"), Str("ju"), Str("juan"), Str("jue"), Str("jun"),
    Str("ka"), Str("kai"), Str("kan"), Str("kang"), Str("kao"), Str("ke"), Str("ken"), Str("keng"), Str("kong"), Str("kou"), Str("ku"), Str("kua"), Str("kuai"), Str("kuan"), Str("kuang"), Str("kui"), Str("kun"), Str("kuo"),
    Str("la"), Str("lai"), Str("lan"), Str("lang"), Str("lao"), Str("le"), Str("lei"), Str("leng"), Str("li"), Str("lia"), Str("lian"), Str("liang"), Str("liao"), Str("lie"), Str("lin"), Str("ling"), Str("liu"), Str("long"), Str("lou"), Str("lu"), Str("luan"), Str("lue"), Str("lun"), Str("luo"), Str("lv"),
    Str("ma"), Str("mai"), Str("man"), Str("mang"), Str("mao"), Str("me"), Str("mei"), Str("men"), Str("meng"), Str("mi"), Str("mian"), Str("miao"), Str("mie"), Str("min"), Str("ming"), Str("miu"), Str("mo"), Str("mou"), Str("mu"),
    Str("na"), Str("nai"), Str("nan"), Str("nang"), Str("nao"), Str("ne"), Str("nei"), Str("nen"), Str("neng"), Str("ni"), Str("nian"), Str("niang"), Str("niao"), Str("nie"), Str("nin"), Str("ning"), Str("niu"), Str("nong"), Str("nu"), Str("nuan"), Str("nue"), Str("nuo"), Str("nv"),
    Str("o"), Str("ou"),
    Str("pa"), Str("pai"), Str("pan"), Str("pang"), Str("pao"), Str("pei"), Str("pen"), Str("peng"), Str("pi"), Str("pian"), Str("piao"), Str("pie"), Str("pin"), Str("ping"), Str("po"), Str("pou"), Str("pu"),
    Str("qi"), Str("qia"), Str("qian"), Str("qiang"), Str("qiao"), Str("qie"), Str("qin"), Str("qing"), Str("qiong"), Str("qiu"), Str("qu"), Str("quan"), Str("que"), Str("qun"),
    Str("ran"), Str("rang"), Str("rao"), Str("re"), Str("ren"), Str("reng"), Str("ri"), Str("rong"), Str("rou"), Str("ru"), Str("ruan"), Str("rui"), Str("run"), Str("ruo"),
    Str("sa"), Str("sai"), Str("san"), Str("sang"), Str("sao"), Str("se"), Str("sen"), Str("seng"), Str("sha"), Str("shai"), Str("shan"), Str("shang"), Str("shao"), Str("she"), Str("shen"), Str("sheng"), Str("shi"), Str("shou"), Str("shu"), Str("shua"), Str("shuai"), Str("shuan"), Str("shuang"), Str("shui"), Str("shun"), Str("shuo"), Str("si"), Str("song"), Str("sou"), Str("su"), Str("suan"), Str("sui"), Str("sun"), Str("suo"),
    Str("ta"), Str("tai"), Str("tan"), Str("tang"), Str("tao"), Str("te"), Str("teng"), Str("ti"), Str("tian"), Str("tiao"), Str("tie"), Str("ting"), Str("tong"), Str("tou"), Str("tu"), Str("tuan"), Str("tui"), Str("tun"), Str("tuo"),
    Str("wa"), Str("wai"), Str("wan"), Str("wang"), Str("wei"), Str("wen"), Str("weng"), Str("wo"), Str("wu"),
    Str("xi"), Str("xia"), Str("xian"), Str("xiang"), Str("xiao"), Str("xie"), Str("xin"), Str("xing"), Str("xiong"), Str("xiu"), Str("xu"), Str("xuan"), Str("xue"), Str("xun"),
    Str("ya"), Str("yan"), Str("yang"), Str("yao"), Str("ye"), Str("yi"), Str("yin"), Str("ying"), Str("yo"), Str("yong"), Str("you"), Str("yu"), Str("yuan"), Str("yue"), Str("yun"),
    Str("za"), Str("zai"), Str("zan"), Str("zang"), Str("zao"), Str("ze"), Str("zei"), Str("zen"), Str("zeng"), Str("zha"), Str("zhai"), Str("zhan"), Str("zhang"), Str("zhao"), Str("zhe"), Str("zhen"), Str("zheng"), Str("zhi"), Str("zhong"), Str("zhou"), Str("zhu"), Str("zhua"), Str("zhuai"), Str("zhuan"), Str("zhuang"), Str("zhui"), Str("zhun"), Str("zhuo"), Str("zi"), Str("zong"), Str("zou"), Str("zu"), Str("zuan"), Str("zui"), Str("zun"), Str("zuo")
}

\* valid_chars_, filled by the constructor: the lowercase letters.
valid_chars_ == ChLowerA..ChLowerZ

\* valid_pinyins_ after initialize(): loadPinyinData copies the standard table.
valid_pinyins_ == STANDARD_PINYINS

\* The strings test_pinyin for which addChar's loop finds a valid pinyin with
\* pinyin.length() >= test_pinyin.length() and pinyin.substr(0, test_pinyin.length())
\* == test_pinyin: the non-empty prefixes of the valid pinyins.
PinyinPrefixes == UNION {{SubSeq(pinyin, 1, n) : n \in 1..Len(pinyin)} : pinyin \in valid_pinyins_}

\* A wrong gate: only a whole valid pinyin passes.
has_valid_prefix_Exact(test_pinyin) == test_pinyin \in valid_pinyins_

\* A wrong gate: every string of valid characters passes.
has_valid_prefix_Any(test_pinyin) == TRUE

\* addChar's loop: some valid pinyin starts with test_pinyin.
has_valid_prefix(test_pinyin) == test_pinyin \in PinyinPrefixes

\* PinyinConverter::addChar on buffer cur: the buffer after it and its result.
addChar(cur, ch) ==
    IF ch \notin valid_chars_
    THEN [buf |-> cur, ret |-> FALSE]
    ELSE LET test_pinyin == Append(cur, ch)
         IN  IF has_valid_prefix(test_pinyin)
             THEN [buf |-> test_pinyin, ret |-> TRUE]
             ELSE [buf |-> cur, ret |-> FALSE]

\* A wrong removeLastChar: the whole buffer is dropped.
removeLastChar_All(cur) ==
    IF cur = <<>>
    THEN [buf |-> cur, ret |-> FALSE]
    ELSE [buf |-> <<>>, ret |-> TRUE]

\* PinyinConverter::removeLastChar.
removeLastChar(cur) ==
    IF cur = <<>>
    THEN [buf |-> cur, ret |-> FALSE]
    ELSE [buf |-> SubSeq(cur, 1, Len(cur) - 1), ret |-> TRUE]

\* PinyinConverter::clear.
clear(cur) == <<>>

\* The keys of pinyin_map_ after initialize(): loadPinyinData enters every valid
\* pinyin.
pinyin_map_ == valid_pinyins_

\* isValidPinyin: pinyin_map_.find(pinyin) != pinyin_map_.end().
isValidPinyin(pinyin) == pinyin \in pinyin_map_

\* segmentPinyinRecursive: results after the call. SegmentLoop is its for loop
\* from length len on: each valid segment pinyin.substr(start, len) is pushed on
\* current, the rest is segmented, and the segment is popped again.
RECURSIVE segmentPinyinRecursive(_, _, _, _), SegmentLoop(_, _, _, _, _)
segmentPinyinRecursive(pinyin, start, current, results) ==
    IF start >= Len(pinyin)
    THEN IF current # <<>> THEN Append(results, current) ELSE results
    ELSE SegmentLoop(pinyin, start, 1, current, results)
SegmentLoop(pinyin, start, len, current, results) ==
    IF len > Len(pinyin) - start
    THEN results
    ELSE LET segment == SubSeq(pinyin, start + 1, start + len)
             pushed == IF isValidPinyin(segment)
                       THEN segmentPinyinRecursive(pinyin, start + len,
                                                   Append(current, segment), results)
                       ELSE results
         IN  SegmentLoop(pinyin, start, len + 1, current, pushed)

\* A wrong getPinyinSegments: the buffer is never cut.
getPinyinSegments_Whole(cur) ==
    IF isValidPinyin(cur) THEN <<<<cur>>>> ELSE <<>>

\* PinyinConverter::getPinyinSegments on buffer cur.
getPinyinSegments(cur) ==
    IF cur = <<>> THEN <<>> ELSE segmentPinyinRecursive(cur, 0, <<>>, <<>>)

----------------------------------------------------------------------------
(* DictionaryManager *)

\* The frequency loadSystemDictionary gives a built-in word.
SeedFrequency == 100

\* loadSystemDictionary's basic_words.
basic_words == {
    [word |-> <<20320, 22909>>,               pinyin |-> Str("ni hao")],            \* U+4F60 U+597D
    [word |-> <<19990, 30028>>,               pinyin |-> Str("shi jie")],           \* U+4E16 U+754C
    [word |-> <<20013, 22269>>,               pinyin |-> Str("zhong guo")],         \* U+4E2D U+56FD
    [word |-> <<36755, 20837, 27861>>,        pinyin |-> Str("shu ru fa")],         \* U+8F93 U+5165 U+6CD5
    [word |-> <<35745, 31639, 26426>>,        pinyin |-> Str("ji suan ji")],        \* U+8BA1 U+7B97 U+673A
    [word |-> <<31243, 24207>>,               pinyin |-> Str("cheng xu")],          \* U+7A0B U+5E8F
    [word |-> <<36719, 20214>>,               pinyin |-> Str("ruan jian")],         \* U+8F6F U+4EF6
    [word |-> <<24320, 21457>>,               pinyin |-> Str("kai fa")],            \* U+5F00 U+53D1
    [word |-> <<25216, 26415>>,               pinyin |-> Str("ji shu")],            \* U+6280 U+672F
    [word |-> <<20154, 24037, 26234, 33021>>, pinyin |-> Str("ren gong zhi neng")]  \* U+4EBA U+5DE5 U+667A U+80FD
}

\* A row of table words (the id and the two timestamps are left out).
Row(word, pinyin, frequency, is_user_word) ==
    [word |-> word, pinyin |-> pinyin, frequency |-> frequency, is_user_word |-> is_user_word]

\* The row of rows with key (word, pinyin), if any: UNIQUE(word, pinyin).
HasRow(rows, word, pinyin) == \E r \in rows : r.word = word /\ r.pinyin = pinyin

\* A wrong loadSystemDictionary: INSERT OR REPLACE of every basic word.
loadSystemDictionary_Replace(rows) ==
    {r \in rows : \A b \in basic_words : ~(r.word = b.word /\ r.pinyin = b.pinyin)}
        \cup {Row(b.word, b.pinyin, SeedFrequency, FALSE) : b \in basic_words}

\* loadSystemDictionary: INSERT OR IGNORE of every basic word, with frequency 100.
loadSystemDictionary(rows) ==
    rows \cup {Row(b.word, b.pinyin, SeedFrequency, FALSE) :
                  b \in {x \in basic_words : ~HasRow(rows, x.word, x.pinyin)}}

\* A wrong calculateScore: the frequency term has no cap.
calculateScore_NoCap(word, word_pinyin, frequency, input_pinyin) ==
    frequency
    + 10 * Max(0, 20 - ByteLength(word))
    + (IF word_pinyin = input_pinyin THEN 300
       ELSE IF Find(word_pinyin, input_pinyin) = 0 THEN 200
       ELSE IF Find(word_pinyin, input_pinyin) # -1 THEN 100
       ELSE 0)

\* calculateScore, in tenths.
calculateScore(word, word_pinyin, frequency, input_pinyin) ==
    Min(500, frequency)
    + 10 * Max(0, 20 - ByteLength(word))
    + (IF word_pinyin = input_pinyin THEN 300
       ELSE IF Find(word_pinyin, input_pinyin) = 0 THEN 200
       ELSE IF Find(word_pinyin, input_pinyin) # -1 THEN 100
       ELSE 0)

\* A Candidate.
Candidate(text, pinyin, score, frequency, is_prediction) ==
    [text |-> text, pinyin |-> pinyin, score |-> score, frequency |-> frequency,
     is_prediction |-> is_prediction]

\* ORDER BY frequency DESC, length(word) ASC: row a may come before row b.
OrderedBefore(a, b) ==
    \/ a.frequency > b.frequency
    \/ a.frequency = b.frequency /\ CharLength(a.word) <= CharLength(b.word)

\* The rows a SELECT with this WHERE set may return, in every order that
\* ORDER BY allows (rows that tie come in an order SQL leaves open), cut by LIMIT
\* (a negative LIMIT is no limit).
SelectOrdered(matching, limit) ==
    {IF limit < 0 THEN o ELSE Take(o, limit) :
        o \in {f \in Orderings(matching) :
                  \A i \in 1..(Len(f) - 1) : OrderedBefore(f[i], f[i + 1])}}

\* searchByPinyin: the candidate lists it may return.
searchByPinyin(rows, pinyin, max_results) ==
    LET matching == {r \in rows : Like(pinyin, r.pinyin) \/ Like(Append(pinyin, ChPercent), r.pinyin)}
    IN  {[i \in 1..Len(o) |->
            Candidate(o[i].word, o[i].pinyin,
                      calculateScore(o[i].word, o[i].pinyin, o[i].frequency, pinyin),
                      o[i].frequency, FALSE)] :
            o \in SelectOrdered(matching, max_results)}

\* fuzzySearch: WHERE pinyin LIKE '%' + partial_pinyin + '%', same ORDER BY and
\* LIMIT; the candidate lists it may return.
fuzzySearch(rows, partial_pinyin, max_results) ==
    LET matching == {r \in rows : Like(<<ChPercent>> \o partial_pinyin \o <<ChPercent>>, r.pinyin)}
    IN  {[i \in 1..Len(o) |->
            Candidate(o[i].word, o[i].pinyin,
                      calculateScore(o[i].word, o[i].pinyin, o[i].frequency, partial_pinyin),
                      o[i].frequency, FALSE)] :
            o \in SelectOrdered(matching, max_results)}

\* A wrong updateWordFrequency: WHERE word = ? only.
updateWordFrequency_ByWord(rows, word, pinyin) ==
    {IF r.word = word THEN [r EXCEPT !.frequency = @ + 1] ELSE r : r \in rows}

\* updateWordFrequency: UPDATE ... SET frequency = frequency + 1 WHERE word, pinyin.
updateWordFrequency(rows, word, pinyin) ==
    {IF r.word = word /\ r.pinyin = pinyin THEN [r EXCEPT !.frequency = @ + 1] ELSE r :
        r \in rows}

----------------------------------------------------------------------------
(* PredictionEngine *)

\* The greatest number of words parsed out of one generated text.
MaxGenerated == 1

\* The words the language model may generate.
GeneratedWords == {<<20320, 22909>>, <<23612>>}   \* U+4F60 U+597D, U+5C3C

\* llama_predictor_->generateText followed by parsePinyinPredictions: the model is
\* a black box, so any list of words may come out (none for an empty text).
GeneratedLists == UNION {[1..n -> GeneratedWords] : n \in 0..MaxGenerated}

\* A wrong construction: the prediction engine is made whatever enable_prediction is.
PredictionEngineInit_Always(enable_prediction, model) ==
    [present        |-> model # "failed",
     initialized_   |-> model = "loaded",
     model_loaded_  |-> model = "loaded",
     prediction_threshold_ |-> 5,
     user_patterns_ |-> <<>>]

\* PredictionEngine::Impl after Engine::Impl::initialize, by what became of the
\* model file: "loaded", "missing" (no path or no file: initialize returns true
\* with initialized_ false) or "failed" (initialize returns false and the engine
\* resets prediction_engine_).
PredictionEngineInit(enable_prediction, model) ==
    [present        |-> enable_prediction /\ model # "failed",
     initialized_   |-> enable_prediction /\ model = "loaded",
     model_loaded_  |-> enable_prediction /\ model = "loaded",
     prediction_threshold_ |-> 5,
     user_patterns_ |-> <<>>]

\* A wrong isAvailable: the collaborator is not asked.
isAvailable_InitializedOnly(pe) == pe.initialized_

\* PredictionEngine::Impl::isAvailable.
isAvailable(pe) == pe.initialized_ /\ pe.model_loaded_

\* base_score += bonus in IEEE doubles, for the sums calculatePinyinScore
\* forms: 0.6 + 0.1 is the double 0.7, 0.6 + 0.3 is 0.8999999999999999 and
\* 0.8999999999999999 + 0.1 is 0.9999999999999999.
DoubleSum(base_score, bonus) ==
    IF bonus = 0 THEN base_score
    ELSE IF base_score = 6 /\ bonus = 1 THEN 7
    ELSE IF base_score = 6 /\ bonus = 3 THEN 8
    ELSE 9

\* A wrong calculatePinyinScore: the score is on the dictionary's scale of 0 to 100.
calculatePinyinScore_Percent(pe, word, pinyin_sequence, context) == 600

\* calculatePinyinScore.
calculatePinyinScore(pe, word, pinyin_sequence, context) ==
    LET history == IF /\ pinyin_sequence \in DOMAIN pe.user_patterns_
                      /\ \E i \in 1..Len(pe.user_patterns_[pinyin_sequence]) :
                             pe.user_patterns_[pinyin_sequence][i] = word
                   THEN 3 ELSE 0
        novelty == IF context # <<>> /\ Find(context, word) = -1 THEN 1 ELSE 0
    IN  Min(10, DoubleSum(DoubleSum(6, history), novelty))

\* predictions.size() >= static_cast<size_t>(max): a negative max converts to a
\* huge size_t and is never reached.
AtLimit(size, max) == max >= 0 /\ size >= max

\* predictFromPinyin's loop over the predicted words.
RECURSIVE ScorePredictions(_, _, _, _, _, _)
ScorePredictions(pe, predicted_words, pinyin_sequence, context, max_predictions, predictions) ==
    IF predicted_words = <<>> \/ AtLimit(Len(predictions), max_predictions)
    THEN predictions
    ELSE LET word  == Head(predicted_words)
             score == calculatePinyinScore(pe, word, pinyin_sequence, context)
         IN  ScorePredictions(pe, Tail(predicted_words), pinyin_sequence, context,
                 max_predictions,
                 IF score >= pe.prediction_threshold_
                 THEN Append(predictions, Candidate(word, pinyin_sequence, score, 0, TRUE))
                 ELSE predictions)

\* predictFromPinyin: the results it may give, each with the number of
\* generateText calls made.
predictFromPinyin(pe, pinyin_sequence, context, max_predictions) ==
    IF ~isAvailable(pe)
    THEN {[predictions |-> <<>>, calls |-> 0]}
    ELSE {[predictions |-> ScorePredictions(pe, g, pinyin_sequence, context,
                                            max_predictions, <<>>),
           calls |-> 1] : g \in GeneratedLists}

\* std::sort by score descending: every arrangement with no score below a later
\* one (std::sort leaves the order of equal scores open).
SortByScore(cands) ==
    {[i \in 1..Len(cands) |-> cands[p[i]]] :
        p \in {q \in Orderings(1..Len(cands)) :
                  \A i \in 1..(Len(cands) - 1) : cands[q[i]].score >= cands[q[i + 1]].score}}

\* PredictionEngine::Impl after its constructor.
PredictionEngineNew ==
    [present        |-> TRUE,
     initialized_   |-> FALSE,
     model_loaded_  |-> FALSE,
     prediction_threshold_ |-> 5,
     user_patterns_ |-> <<>>]

\* What PredictionEngine::Impl::initialize may meet: an empty model_path_, no
\* file at it, a collaborator whose initialize fails, one that loads the model,
\* and one whose initialize succeeds but which reports no loaded model (the
\* build without llama.cpp).
InitializeOutcomes == {"no path", "no file", "failed", "loaded", "not loaded"}

\* PredictionEngine::Impl::initialize: the engine after it and its result.
PredictionInitialize(pe, outcome) ==
    IF outcome \in {"no path", "no file"} THEN [pe |-> pe, ret |-> TRUE]
    ELSE IF outcome = "failed" THEN [pe |-> pe, ret |-> FALSE]
    ELSE [pe |-> [pe EXCEPT !.initialized_ = TRUE, !.model_loaded_ = (outcome = "loaded")],
          ret |-> TRUE]

\* PredictionEngine::Impl::shutdown.
PredictionShutdown(pe) == [pe EXCEPT !.initialized_ = FALSE, !.model_loaded_ = FALSE]

\* setPredictionThreshold: clamped to [0.0, 1.0].
setPredictionThreshold(pe, threshold) ==
    [pe EXCEPT !.prediction_threshold_ = Max(0, Min(10, threshold))]

\* The number of keys learnUserPattern cuts user_patterns_ back to (1000 in the
\* code).
MaxPatterns == 2

\* learnUserPattern: the values user_patterns_ may have after it, each with the
\* key erased (user_patterns_.begin() of an unordered_map is any of its keys).
learnUserPattern(pe, input_sequence, selected_text) ==
    IF ~isAvailable(pe)
    THEN {[pe |-> pe, erased |-> <<>>]}
    ELSE LET old == pe.user_patterns_
             history == IF input_sequence \in DOMAIN old THEN old[input_sequence] ELSE <<>>
             added == [k \in DOMAIN old \cup {input_sequence} |->
                          IF k = input_sequence THEN Append(history, selected_text) ELSE old[k]]
         IN  IF Cardinality(DOMAIN added) > MaxPatterns
             THEN {[pe |-> [pe EXCEPT !.user_patterns_ =
                                         [k \in DOMAIN added \ {it} |-> added[k]]],
                    erased |-> <<it>>] : it \in DOMAIN added}
             ELSE {[pe |-> [pe EXCEPT !.user_patterns_ = added], erased |-> <<>>]}

\* The probabilities getNextWordProbability may give.
Probabilities == {3, 9}

\* predictNextWords' loop over the words, probabilities[i] being the
\* probability the collaborator gives the i-th of them.
RECURSIVE ScoreNextWords(_, _, _, _, _)
ScoreNextWords(pe, next_words, probabilities, max_predictions, predictions) ==
    IF next_words = <<>> \/ AtLimit(Len(predictions), max_predictions)
    THEN predictions
    ELSE ScoreNextWords(pe, Tail(next_words), Tail(probabilities), max_predictions,
             IF Head(probabilities) >= pe.prediction_threshold_
             THEN Append(predictions,
                         Candidate(Head(next_words), Str("pinyin"), Head(probabilities), 0, TRUE))
             ELSE predictions)

\* predictNextWords: the results it may give, each with the number of
\* generateText calls made. parseGeneratedText drops the words found in the
\* context; the list is sorted by score, ties in any order.
predictNextWords(pe, context, max_predictions) ==
    IF ~isAvailable(pe)
    THEN {[predictions |-> <<>>, calls |-> 0]}
    ELSE UNION {UNION {
            {[predictions |-> sorted, calls |-> 1] :
                sorted \in SortByScore(ScoreNextWords(pe, next_words, probabilities,
                                                      max_predictions, <<>>))} :
                probabilities \in [1..Len(next_words) -> Probabilities]} :
            next_words \in {SelectSeq(g, LAMBDA word : Find(context, word) = -1) :
                                g \in GeneratedLists}}

\* Whether string a comes before string b in std::string's order.
RECURSIVE StrLess(_, _)
StrLess(a, b) ==
    IF b = <<>> THEN FALSE
    ELSE IF a = <<>> THEN TRUE
    ELSE IF Head(a) # Head(b) THEN Head(a) < Head(b)
    ELSE StrLess(Tail(a), Tail(b))

\* std::sort followed by std::unique and erase: the strings of generated, each
\* once, in ascending order.
SortedUnique(generated) ==
    CHOOSE o \in Orderings(Range(generated)) :
        \A i \in 1..(Len(o) - 1) : StrLess(o[i], o[i + 1])

\* calculateCompletionScore: 0.7 + 0.3 / (extra + 1) for extra more bytes, which
\* is 0.85 for one byte and below 0.8 from two bytes on (0.7999999999999999 for
\* two).
calculateCompletionScore(partial_text, completion) ==
    LET extra == ByteLength(completion) - ByteLength(partial_text)
    IN  IF extra <= 0 THEN 0 ELSE IF extra = 1 THEN 8 ELSE 7

\* completePartialInput's loop over the completions.
RECURSIVE ScoreCompletions(_, _, _, _, _)
ScoreCompletions(pe, completions_text, partial_text, max_completions, completions) ==
    IF completions_text = <<>> \/ AtLimit(Len(completions), max_completions)
    THEN completions
    ELSE LET completion == Head(completions_text)
             score == calculateCompletionScore(partial_text, completion)
         IN  ScoreCompletions(pe, Tail(completions_text), partial_text, max_completions,
                 IF score >= pe.prediction_threshold_
                 THEN Append(completions, Candidate(completion, Str("pinyin"), score, 0, TRUE))
                 ELSE completions)

\* completePartialInput: the results it may give, each with the number of
\* generateText calls made. parseCompletions keeps the generated words that
\* start with the partial text and are longer.
completePartialInput(pe, partial_text, max_completions) ==
    IF ~isAvailable(pe) \/ partial_text = <<>>
    THEN {[predictions |-> <<>>, calls |-> 0]}
    ELSE {[predictions |->
              ScoreCompletions(pe,
                  SortedUnique(SelectSeq(g, LAMBDA word :
                      /\ IsPrefix(partial_text, word)
                      /\ ByteLength(word) > ByteLength(partial_text))),
                  partial_text, max_completions, <<>>),
           calls |-> 1] : g \in GeneratedLists}

----------------------------------------------------------------------------
(* Engine::Impl *)

\* The engine and what it owns, as one value; the operators below are the
\* member functions, from this value to the value (or the possible values) after.
Machine ==
    [config_ |-> config_, state_ |-> state_, composition_ |-> composition_,
     candidates_ |-> candidates_, current_pinyin_ |-> current_pinyin_, words |-> words,
     prediction_engine_ |-> prediction_engine_, notes |-> <<>>, gen_calls |-> 0,
     dict_candidates |-> <<>>, predicted_candidates |-> <<>>, upd_state |-> "none",
     seen |-> <<>>]

\* A call of candidate_callback_, commit_callback_, state_change_callback_.
CandidateNote(list) == [type |-> "candidates", list |-> list, text |-> <<>>, state |-> "none"]
CommitNote(text)    == [type |-> "commit", list |-> <<>>, text |-> text, state |-> "none"]
StateNote(state)    == [type |-> "state", list |-> <<>>, text |-> <<>>, state |-> state]

\* What getState, getComposition and getCandidates return, and the rows of the store.
Observed(m) ==
    [state_ |-> m.state_, composition_ |-> m.composition_, candidates_ |-> m.candidates_,
     words |-> m.words]

\* A registered callback is called: it runs inside the operation, so what it can
\* read of the engine is the engine as it is at the call.
Invoke(m, note) ==
    [m EXCEPT !.notes = Append(@, note), !.seen = Append(@, Observed(m))]

\* A wrong setState: the callback is called whether or not the state changes.
setState_Always(m, new_state) ==
    Invoke([m EXCEPT !.state_ = new_state], StateNote(new_state))

\* setState.
setState(m, new_state) ==
    IF m.state_ # new_state
    THEN Invoke([m EXCEPT !.state_ = new_state], StateNote(new_state))
    ELSE m

\* A wrong clearComposition: the candidate callback is skipped when the state did
\* not change.
clearComposition_WhenChanged(m) ==
    LET cleared == setState([m EXCEPT !.composition_ = <<>>,
                                      !.candidates_ = <<>>,
                                      !.current_pinyin_ = <<>>],
                            "IDLE")
    IN  IF m.state_ = "IDLE"
        THEN cleared
        ELSE Invoke(cleared, CandidateNote(cleared.candidates_))

\* A wrong clearComposition: the segmenter's buffer is left as it was.
clearComposition_KeepBuffer(m) ==
    LET cleared == setState([m EXCEPT !.composition_ = <<>>, !.candidates_ = <<>>], "IDLE")
    IN  Invoke(cleared, CandidateNote(cleared.candidates_))

\* clearComposition.
clearComposition(m) ==
    LET cleared == setState([m EXCEPT !.composition_ = <<>>,
                                      !.candidates_ = <<>>,
                                      !.current_pinyin_ = clear(m.current_pinyin_)],
                            "IDLE")
    IN  Invoke(cleared, CandidateNote(cleared.candidates_))

\* A wrong filter loop: duplicates are kept.
RECURSIVE FilterPredictions_NoDedup(_, _, _)
FilterPredictions_NoDedup(cands, predicted, threshold) ==
    IF predicted = <<>>
    THEN cands
    ELSE FilterPredictions_NoDedup(
             IF Head(predicted).score >= threshold
             THEN Append(cands, Head(predicted))
             ELSE cands,
             Tail(predicted), threshold)

\* updateCandidates' filter loop: a prediction is appended unless a candidate
\* already in the list has its text or its score is below the threshold.
RECURSIVE FilterPredictions(_, _, _)
FilterPredictions(cands, predicted, threshold) ==
    IF predicted = <<>>
    THEN cands
    ELSE LET pred_candidate == Head(predicted)
             duplicate == \E i \in 1..Len(cands) : cands[i].text = pred_candidate.text
         IN  FilterPredictions(
                 IF ~duplicate /\ pred_candidate.score >= threshold
                 THEN Append(cands, pred_candidate)
                 ELSE cands,
                 Tail(predicted), threshold)

\* A wrong resize: nothing is cut.
Truncate_None(cands, max_candidates) == cands

\* candidates_.resize(max_candidates) when size() > static_cast<size_t>(max_candidates):
\* a negative max_candidates converts to a huge size_t, and nothing is cut.
Truncate(cands, max_candidates) ==
    IF max_candidates >= 0 /\ Len(cands) > max_candidates
    THEN SubSeq(cands, 1, max_candidates)
    ELSE cands

\* A wrong state: IDLE for an empty list.
StateAfterUpdate_ByList(cands) == IF cands = <<>> THEN "IDLE" ELSE "SELECTING"

\* The state updateCandidates sets before it publishes a non-empty buffer's list.
StateAfterUpdate(cands) == "SELECTING"

\* Whether updateCandidates asks the prediction engine.
UsesPrediction(m) ==
    m.prediction_engine_.present /\ isAvailable(m.prediction_engine_)

\* updateCandidates: the possible values after it.
updateCandidates(m) ==
    LET m1 == [m EXCEPT !.composition_ = m.current_pinyin_, !.candidates_ = <<>>]
    IN  IF m1.composition_ = <<>>
        THEN LET m2 == setState(m1, "IDLE")
             IN  {[Invoke(m2, CandidateNote(m2.candidates_)) EXCEPT !.upd_state = m2.state_]}
        ELSE UNION {UNION {
                {LET m2 == setState([m1 EXCEPT
                                 !.candidates_ = Truncate(sorted, m.config_.max_candidates),
                                 !.gen_calls = @ + pr.calls,
                                 !.dict_candidates = dict,
                                 !.predicted_candidates = pr.predictions],
                             StateAfterUpdate(sorted))
                 IN  [Invoke(m2, CandidateNote(m2.candidates_)) EXCEPT !.upd_state = m2.state_] :
                    sorted \in SortByScore(
                        FilterPredictions(dict, pr.predictions,
                                          m.config_.prediction_threshold))} :
                pr \in (IF UsesPrediction(m)
                        THEN predictFromPinyin(m.prediction_engine_, m1.composition_, <<>>,
                                 Max(1, m.config_.max_candidates - Len(dict)))
                        ELSE {[predictions |-> <<>>, calls |-> 0]})} :
            dict \in searchByPinyin(m.words, m1.composition_, m.config_.max_candidates)}

\* A wrong frequency update: enable_learning is not looked at.
LearnSelection_Always(m, candidate) ==
    [m EXCEPT !.words = updateWordFrequency(@, candidate.text, candidate.pinyin)]

\* The frequency update of selectCandidate.
LearnSelection(m, candidate) ==
    IF m.config_.enable_learning
    THEN [m EXCEPT !.words = updateWordFrequency(@, candidate.text, candidate.pinyin)]
    ELSE m

\* A wrong selectCandidate: the composition is cleared before the text is committed.
selectCandidate_ClearFirst(m, index) ==
    IF index < 0 \/ index >= Len(m.candidates_)
    THEN [m |-> m, ret |-> FALSE]
    ELSE LET candidate == m.candidates_[index + 1]
             m1 == LearnSelection(m, candidate)
         IN  [m |-> Invoke(clearComposition(m1), CommitNote(candidate.text)), ret |-> TRUE]

\* selectCandidate: the value after it and its result.
selectCandidate(m, index) ==
    IF index < 0 \/ index >= Len(m.candidates_)
    THEN [m |-> m, ret |-> FALSE]
    ELSE LET candidate == m.candidates_[index + 1]
             m1 == LearnSelection(m, candidate)
             m2 == Invoke(m1, CommitNote(candidate.text))
         IN  [m |-> clearComposition(m2), ret |-> TRUE]

\* A wrong commitComposition: the first candidate's text is committed when there
\* is one.
commitComposition_FirstCandidate(m) ==
    LET result == IF m.candidates_ # <<>> THEN m.candidates_[1].text ELSE m.composition_
        m1 == IF result # <<>>
              THEN Invoke(m, CommitNote(result))
              ELSE m
    IN  [m |-> clearComposition(m1), ret |-> TRUE]

\* commitComposition (its result is the string it commits; ret is true).
commitComposition(m) ==
    LET result == m.composition_
        m1 == IF result # <<>>
              THEN Invoke(m, CommitNote(result))
              ELSE m
    IN  [m |-> clearComposition(m1), ret |-> TRUE]

\* static_cast<char>(event.key_code).
CharOf(key_code) ==
    LET b == key_code % 256 IN IF b >= 128 THEN b - 256 ELSE b

\* A wrong digit test: the last candidate cannot be selected.
DigitSelects_OffByOne(m, ch) == ch >= Ch1 /\ ch <= Ch9 /\ ch - Ch1 < Len(m.candidates_) - 1

\* A wrong digit test: the size of the candidate list is not looked at.
DigitSelects_NoBound(m, ch) == ch >= Ch1 /\ ch <= Ch9

\* handleKeyPress' test of a digit key: ch is one of '1'..'9' and its index is
\* within the candidate list.
DigitSelects(m, ch) == ch >= Ch1 /\ ch <= Ch9 /\ ch - Ch1 < Len(m.candidates_)

\* handleKeyPress: the possible values after it, each with its result.
handleKeyPress(m, key_code) ==
    LET ch == CharOf(key_code) IN
    IF key_code = 8
    THEN IF m.composition_ # <<>>
         THEN {[m |-> u, ret |-> TRUE] :
                  u \in updateCandidates(
                      [m EXCEPT !.current_pinyin_ = removeLastChar(@).buf])}
         ELSE {[m |-> m, ret |-> FALSE]}
    ELSE IF key_code = 27
    THEN {[m |-> clearComposition(m), ret |-> TRUE]}
    ELSE IF key_code = 13
    THEN IF m.composition_ # <<>>
         THEN {[m |-> commitComposition(m).m, ret |-> TRUE]}
         ELSE {[m |-> m, ret |-> FALSE]}
    ELSE IF DigitSelects(m, ch)
    THEN {[m |-> selectCandidate(m, ch - Ch1).m, ret |-> TRUE]}
    ELSE IF (ch >= ChLowerA /\ ch <= ChLowerZ) \/ (ch >= ChUpperA /\ ch <= ChUpperZ)
    THEN LET added == addChar(m.current_pinyin_, ToLower(ch))
         IN  IF added.ret
             THEN {[m |-> setState(u, "COMPOSING"), ret |-> TRUE] :
                      u \in updateCandidates([m EXCEPT !.current_pinyin_ = added.buf])}
             ELSE {[m |-> m, ret |-> FALSE]}
    ELSE {[m |-> m, ret |-> FALSE]}

\* std::stoi of event.data: leading blanks, an optional sign, then digits; it
\* throws when no digit follows.
RECURSIVE SkipBlanks(_)
SkipBlanks(s) == IF s # <<>> /\ Head(s) = ChBlank THEN SkipBlanks(Tail(s)) ELSE s
RECURSIVE Digits(_, _)
Digits(s, acc) ==
    IF s # <<>> /\ Head(s) >= Ch0 /\ Head(s) <= Ch9
    THEN Digits(Tail(s), 10 * acc + (Head(s) - Ch0))
    ELSE acc
Stoi(data) ==
    LET s == SkipBlanks(data)
        signed == s # <<>> /\ Head(s) \in {ChMinus, ChPlus}
        body == IF signed THEN Tail(s) ELSE s
        ok == body # <<>> /\ Head(body) >= Ch0 /\ Head(body) <= Ch9
    IN  [ok |-> ok,
         value |-> IF ~ok THEN 0
                   ELSE IF signed /\ Head(s) = ChMinus THEN 0 - Digits(body, 0)
                   ELSE Digits(body, 0)]

\* handleCandidateSelect.
handleCandidateSelect(m, data) ==
    LET index == Stoi(data)
    IN  IF index.ok
        THEN selectCandidate(m, index.value)
        ELSE [m |-> m, ret |-> FALSE]

\* handleCommitText.
handleCommitText(m, data) ==
    [m |-> clearComposition(Invoke(m, CommitNote(data))), ret |-> TRUE]

\* processInput: the possible values after it, each with its result.
processInput(m, event) ==
    CASE event.type = "KEY_PRESS"         -> handleKeyPress(m, event.key_code)
      [] event.type = "CANDIDATE_SELECT"  -> {handleCandidateSelect(m, event.data)}
      [] event.type = "COMMIT_TEXT"       -> {handleCommitText(m, event.data)}
      [] event.type = "CLEAR_COMPOSITION" -> {[m |-> clearComposition(m), ret |-> TRUE]}
      [] OTHER                            -> {[m |-> m, ret |-> FALSE]}

\* A wrong updateConfig: the threshold is handed on to the prediction engine.
updateConfig_SetsThreshold(m, config) ==
    [m EXCEPT !.config_ = config,
              !.prediction_engine_.prediction_threshold_ = config.prediction_threshold]

\* Engine::updateConfig.
updateConfig(m, config) == [m EXCEPT !.config_ = config]

----------------------------------------------------------------------------
(* The sessions checked *)

\* The greatest max_candidates a configuration is given.
MaxCandidates == 2

\* The greatest number of frequency increments in one session.
MaxLearned == 1

\* The configurations a session is constructed or reconfigured with (the two
\* paths play no part after construction).
Config(max_candidates, enable_prediction, enable_learning, prediction_threshold) ==
    [max_candidates |-> max_candidates, enable_prediction |-> enable_prediction,
     enable_learning |-> enable_learning, prediction_threshold |-> prediction_threshold]
Configs ==
    {Config(MaxCandidates, TRUE, TRUE, 5), Config(1, FALSE, FALSE, 7)}

\* What initialize() finds at model_path.
ModelOutcomes == {"loaded", "missing"}

\* The word added by addUserWord before the session: U+4F60 U+597D once more,
\* under the abbreviated spelling "nh" (UNIQUE(word, pinyin) admits it).
EarlierUserWords == {Row(<<20320, 22909>>, Str("nh"), SeedFrequency, TRUE)}

\* The keys pressed: Backspace, Enter, Escape, two digits, five letters and a capital.
KeyCodes ==
    {8, 13, 27} \cup {Ord("1"), Ord("2")}
    \cup {Ord("n"), Ord("i"), Ord("h"), Ord("a"), Ord("o"), Ord("N")}

\* The payloads of candidate-select and commit-text events, and the indexes
\* selectCandidate is called with.
SelectData == {Str("0"), Str("x")}
CommitData == {<<>>, Str("ok")}
Indexes == {-1, 0}

\* The keys of the scenario "typing n, i then h, a, o".
ScenarioKeys == Str("nihao")

Last(op, arg, data, ret) == [op |-> op, arg |-> arg, data |-> data, ret |-> ret]

\* The state after construction and initialize(), callbacks registered.
InitWith(config, model) ==
    /\ constructed_with = config
    /\ config_ = config
    /\ state_ = "IDLE"
    /\ composition_ = <<>>
    /\ candidates_ = <<>>
    /\ current_pinyin_ = <<>>
    /\ words = loadSystemDictionary(EarlierUserWords)
    /\ prediction_engine_ = PredictionEngineInit(config.enable_prediction, model)
    /\ last = Last("init", 0, <<>>, TRUE)
    /\ notes = <<>>
    /\ gen_calls = 0
    /\ dict_candidates = <<>>
    /\ predicted_candidates = <<>>
    /\ upd_state = "none"
    /\ scen = 0
    /\ seen = <<>>
    /\ pattern_order = <<>>

Init == \E config \in Configs, model \in ModelOutcomes : InitWith(config, model)

\* The number of frequency increments since the rows were stored.
RECURSIVE Learned(_)
Learned(rows) ==
    IF rows = {} THEN 0
    ELSE LET r == CHOOSE x \in rows : TRUE
         IN  (r.frequency - SeedFrequency) + Learned(rows \ {r})

\* One public operation took the engine to r.m and returned r.ret; observed is
\* what the registered callbacks read of the engine while they ran.
Delivered(r, op, arg, data, next_scen, observed) ==
    /\ Learned(r.m.words) <= MaxLearned
    /\ constructed_with' = constructed_with
    /\ config_' = r.m.config_
    /\ state_' = r.m.state_
    /\ composition_' = r.m.composition_
    /\ candidates_' = r.m.candidates_
    /\ current_pinyin_' = r.m.current_pinyin_
    /\ words' = r.m.words
    /\ prediction_engine_' = r.m.prediction_engine_
    /\ last' = Last(op, arg, data, r.ret)
    /\ notes' = r.m.notes
    /\ gen_calls' = r.m.gen_calls
    /\ dict_candidates' = r.m.dict_candidates
    /\ predicted_candidates' = r.m.predicted_candidates
    /\ upd_state' = r.m.upd_state
    /\ scen' = next_scen
    /\ seen' = observed
    /\ pattern_order' = pattern_order

\* One public operation, with callbacks that do not look at the engine.
Becomes(r, op, arg, data, next_scen) == Delivered(r, op, arg, data, next_scen, <<>>)

\* The scenario starts where the engine is idle with an empty buffer and the
\* store holds ("ni hao" word, "ni hao", 100).
ScenarioStart ==
    /\ state_ = "IDLE"
    /\ current_pinyin_ = <<>>
    /\ Row(<<20320, 22909>>, Str("ni hao"), SeedFrequency, FALSE) \in words

ScenarioAfterKey(key_code) ==
    IF key_code = ScenarioKeys[1] /\ ScenarioStart THEN 1
    ELSE IF scen \in 1..(Len(ScenarioKeys) - 1) /\ key_code = ScenarioKeys[scen + 1]
         THEN scen + 1
         ELSE 0

KeyPress(key_code) ==
    \E r \in processInput(Machine, [type |-> "KEY_PRESS", data |-> <<>>, key_code |-> key_code]) :
        Becomes(r, "keyPress", key_code, <<>>, ScenarioAfterKey(key_code))

KeyRelease(key_code) ==
    \E r \in processInput(Machine, [type |-> "KEY_RELEASE", data |-> <<>>, key_code |-> key_code]) :
        Becomes(r, "keyRelease", key_code, <<>>, 0)

CandidateSelect(data) ==
    \E r \in processInput(Machine, [type |-> "CANDIDATE_SELECT", data |-> data, key_code |-> 0]) :
        Becomes(r, "candidateSelect", 0, data, 0)

CommitText(data) ==
    \E r \in processInput(Machine, [type |-> "COMMIT_TEXT", data |-> data, key_code |-> 0]) :
        Becomes(r, "commitText", 0, data, 0)

ClearCompositionEvent ==
    \E r \in processInput(Machine, [type |-> "CLEAR_COMPOSITION", data |-> <<>>, key_code |-> 0]) :
        Becomes(r, "clearCompositionEvent", 0, <<>>, 0)

SelectCandidate(index) ==
    Becomes(selectCandidate(Machine, index), "selectCandidate", index, <<>>, 0)

CommitComposition ==
    Becomes(commitComposition(Machine), "commitComposition", 0, <<>>, 0)

ClearComposition ==
    Becomes([m |-> clearComposition(Machine), ret |-> TRUE], "clearComposition", 0, <<>>, 0)

UpdateConfig(config) ==
    Becomes([m |-> updateConfig(Machine, config), ret |-> TRUE], "updateConfig", 0, <<>>, 0)

Next ==
    \/ \E key_code \in KeyCodes : KeyPress(key_code)
    \/ \E key_code \in {Ord("n")} : KeyRelease(key_code)
    \/ \E data \in SelectData : CandidateSelect(data)
    \/ \E data \in CommitData : CommitText(data)
    \/ ClearCompositionEvent
    \/ \E index \in Indexes : SelectCandidate(index)
    \/ CommitComposition
    \/ ClearComposition
    \/ \E config \in Configs : UpdateConfig(config)

Spec == Init /\ [][Next]_vars

----------------------------------------------------------------------------
(* The engine under a host whose callbacks read it *)

\* The keys pressed: Enter, two digits and the letters of "ni".
HostKeyCodes == {13, Ord("1"), Ord("2"), Ord("n"), Ord("i")}

HostKeyPress(key_code) ==
    \E r \in processInput(Machine, [type |-> "KEY_PRESS", data |-> <<>>, key_code |-> key_code]) :
        Delivered(r, "keyPress", key_code, <<>>, 0, r.m.seen)

HostCandidateSelect(data) ==
    \E r \in processInput(Machine, [type |-> "CANDIDATE_SELECT", data |-> data, key_code |-> 0]) :
        Delivered(r, "candidateSelect", 0, data, 0, r.m.seen)

HostSelectCandidate(index) ==
    LET r == selectCandidate(Machine, index)
    IN  Delivered(r, "selectCandidate", index, <<>>, 0, r.m.seen)

HostNext ==
    \/ \E key_code \in HostKeyCodes : HostKeyPress(key_code)
    \/ \E data \in SelectData : HostCandidateSelect(data)
    \/ \E index \in Indexes : HostSelectCandidate(index)

HostSpec == Init /\ [][HostNext]_vars

----------------------------------------------------------------------------
(* The pinyin buffer on its own *)

\* The characters given to addChar: the letters of a few syllables, a capital, a digit,
\* a blank.
SegLetters == Str("nihaozguex")

SegChars == {SegLetters[i] : i \in 1..Len(SegLetters)} \cup {ChUpperA, Ch1, ChBlank}

SegInit ==
    InitWith(Config(1, FALSE, FALSE, 7), "missing")

SegUnchanged ==
    UNCHANGED <<constructed_with, config_, state_, composition_, candidates_, words, prediction_engine_,
                notes, gen_calls, dict_candidates, predicted_candidates, upd_state, scen,
                seen, pattern_order>>

AddChar(ch) ==
    LET added == addChar(current_pinyin_, ch)
    IN  /\ current_pinyin_' = added.buf
        /\ last' = Last("addChar", ch, <<>>, added.ret)
        /\ SegUnchanged

RemoveLastChar ==
    /\ current_pinyin_' = removeLastChar(current_pinyin_).buf
    /\ last' = Last("removeLastChar", 0, <<>>, removeLastChar(current_pinyin_).ret)
    /\ SegUnchanged

Clear ==
    /\ current_pinyin_' = clear(current_pinyin_)
    /\ last' = Last("clear", 0, <<>>, TRUE)
    /\ SegUnchanged

GetPinyinSegments ==
    /\ current_pinyin_' = current_pinyin_
    /\ last' = Last("getPinyinSegments", 0, getPinyinSegments(current_pinyin_), TRUE)
    /\ SegUnchanged

SegNext ==
    \/ \E ch \in SegChars : AddChar(ch)
    \/ RemoveLastChar
    \/ Clear
    \/ GetPinyinSegments

SegSpec == SegInit /\ [][SegNext]_vars


----------------------------------------------------------------------------
(* DictionaryManager: the operations that write the store *)

\* initialize: the tables are created if they do not exist and the basic words
\* are loaded; the rows already in the database file stay.
initialize(rows) == loadSystemDictionary(rows)

\* A wrong addUserWord: a plain INSERT with no UNIQUE constraint behind it.
addUserWord_Insert(rows, word, pinyin, frequency) ==
    rows \cup {Row(word, pinyin, frequency, TRUE)}

\* A wrong addUserWord: the row that holds the key keeps its is_user_word.
addUserWord_KeepFlag(rows, word, pinyin, frequency) ==
    {r \in rows : ~(r.word = word /\ r.pinyin = pinyin)}
        \cup {Row(word, pinyin, frequency,
                  ~(\E r \in rows : r.word = word /\ r.pinyin = pinyin /\ ~r.is_user_word))}

\* addUserWord: INSERT OR REPLACE ... VALUES (word, pinyin, frequency, 1); the
\* row that holds the key (word, pinyin) is deleted and the new one inserted.
addUserWord(rows, word, pinyin, frequency) ==
    {r \in rows : ~(r.word = word /\ r.pinyin = pinyin)}
        \cup {Row(word, pinyin, frequency, TRUE)}

\* A wrong removeUserWord: is_user_word is not looked at.
removeUserWord_Any(rows, word, pinyin) ==
    {r \in rows : ~(r.word = word /\ r.pinyin = pinyin)}

\* A wrong removeUserWord: nothing is deleted.
removeUserWord_None(rows, word, pinyin) == rows

\* removeUserWord: DELETE ... WHERE word = ? AND pinyin = ? AND is_user_word = 1.
removeUserWord(rows, word, pinyin) ==
    {r \in rows : ~(r.word = word /\ r.pinyin = pinyin /\ r.is_user_word)}

\* learnUserInput's combined_pinyin: the sequence joined with single blanks.
RECURSIVE JoinPinyin(_)
JoinPinyin(pinyin_sequence) ==
    IF pinyin_sequence = <<>> THEN <<>>
    ELSE IF Len(pinyin_sequence) = 1 THEN pinyin_sequence[1]
    ELSE pinyin_sequence[1] \o <<ChBlank>> \o JoinPinyin(Tail(pinyin_sequence))

\* learnUserInput: the store after it and its result.
learnUserInput(rows, text, pinyin_sequence) ==
    IF text = <<>> \/ pinyin_sequence = <<>>
    THEN [rows |-> rows, ret |-> FALSE]
    ELSE [rows |-> addUserWord(rows, text, JoinPinyin(pinyin_sequence), 1), ret |-> TRUE]

\* iss >> token for a std::string: blanks are skipped, then the characters up to
\* the next blank are read; it fails at the end of the line.
RECURSIVE TokenLength(_)
TokenLength(s) == IF s = <<>> \/ Head(s) = ChBlank THEN 0 ELSE 1 + TokenLength(Tail(s))
ReadToken(s) ==
    LET t == SkipBlanks(s)
        n == TokenLength(t)
    IN  [ok |-> n > 0, token |-> SubSeq(t, 1, n), rest |-> SubSeq(t, n + 1, Len(t))]

\* importDictionary's loop body for one line: iss >> word >> pinyin >> frequency,
\* then addUserWord when all three were read.
ImportLine(rows, line) ==
    LET word == ReadToken(line)
        pinyin == ReadToken(word.rest)
        frequency == Stoi(pinyin.rest)
    IN  IF word.ok /\ pinyin.ok /\ frequency.ok
        THEN [rows |-> addUserWord(rows, word.token, pinyin.token, frequency.value),
              imported |-> 1]
        ELSE [rows |-> rows, imported |-> 0]

RECURSIVE ImportLines(_, _, _)
ImportLines(rows, lines, imported) ==
    IF lines = <<>>
    THEN [rows |-> rows, imported |-> imported]
    ELSE LET one == ImportLine(rows, Head(lines))
         IN  ImportLines(one.rows, Tail(lines), imported + one.imported)

\* importDictionary: the store after it and its result (file.open: whether the
\* file could be opened).
importDictionary(rows, file, format) ==
    IF format # "txt" \/ ~file.open
    THEN [rows |-> rows, ret |-> FALSE]
    ELSE LET done == ImportLines(rows, file.lines, 0)
         IN  [rows |-> done.rows, ret |-> done.imported > 0]

\* file << frequency for an int: its decimal digits, after a minus sign when it
\* is negative.
RECURSIVE Decimal(_)
Decimal(n) ==
    IF n < 0 THEN <<ChMinus>> \o Decimal(0 - n)
    ELSE IF n < 10 THEN <<Ch0 + n>>
    ELSE Decimal(n \div 10) \o <<Ch0 + (n % 10)>>

\* The line exportUserDictionary writes for a row.
ExportLine(r) == r.word \o <<ChBlank>> \o r.pinyin \o <<ChBlank>> \o Decimal(r.frequency)

\* exportUserDictionary: the files it may write and its result (open: whether
\* the file could be created). SELECT ... WHERE is_user_word = 1 ORDER BY
\* frequency DESC leaves the order of rows of equal frequency open.
exportUserDictionary(rows, open, format) ==
    IF format # "txt" \/ ~open
    THEN {[written |-> FALSE, lines |-> <<>>, ret |-> FALSE]}
    ELSE {[written |-> TRUE,
           lines |-> [i \in 1..Len(o) |-> ExportLine(o[i])],
           ret |-> Len(o) > 0] :
             o \in {f \in Orderings({r \in rows : r.is_user_word}) :
                       \A i \in 1..(Len(f) - 1) : f[i].frequency >= f[i + 1].frequency}}

\* A wrong cleanupLowFrequencyWords: is_user_word is not looked at.
cleanupLowFrequencyWords_All(rows, min_frequency) ==
    LET deleted == {r \in rows : r.frequency < min_frequency}
    IN  [rows |-> rows \ deleted, ret |-> Cardinality(deleted)]

\* cleanupLowFrequencyWords: DELETE ... WHERE is_user_word = 1 AND frequency < ?;
\* its result is the number of rows deleted.
cleanupLowFrequencyWords(rows, min_frequency) ==
    LET deleted == {r \in rows : r.is_user_word /\ r.frequency < min_frequency}
    IN  [rows |-> rows \ deleted, ret |-> Cardinality(deleted)]

----------------------------------------------------------------------------
(* The store on its own *)

\* The keys the operations are called with: a basic word and a word that is
\* not stored at first.
DictKeys ==
    {[word |-> <<20320, 22909>>, pinyin |-> Str("ni hao")],   \* U+4F60 U+597D
     [word |-> <<20320>>,        pinyin |-> Str("ni")]}       \* U+4F60

\* The frequencies addUserWord is called with.
DictFrequencies == {1, 2, SeedFrequency}

\* The texts and pinyin sequences learnUserInput is called with.
LearnTexts == {<<>>, <<20320, 22909>>, <<20320>>}
LearnSequences == {<<>>, <<Str("ni")>>, <<Str("ni"), Str("hao")>>}

\* The dictionary files imported: a line "word pinyin frequency", a line whose
\* pinyin has two syllables followed by the first, a line with no frequency,
\* and a file that cannot be opened.
ImportFiles ==
    {[open |-> TRUE,  lines |-> <<<<20320>> \o Str(" ni 2")>>],
     [open |-> TRUE,  lines |-> <<<<20320, 22909>> \o Str(" ni hao 2"),
                                  <<20320>> \o Str(" ni 2")>>],
     [open |-> TRUE,  lines |-> <<<<20320>> \o Str(" ni")>>],
     [open |-> FALSE, lines |-> <<>>]}
ImportFormats == {"txt", "csv"}

\* The thresholds cleanupLowFrequencyWords is called with.
CleanupThresholds == {2, SeedFrequency + 1}

\* The database file initialize() opens first: new, or with the word of an
\* earlier session.
DictInit ==
    /\ \E rows \in {{}, EarlierUserWords} : words = initialize(rows)
    /\ constructed_with = Config(1, FALSE, FALSE, 7)
    /\ config_ = Config(1, FALSE, FALSE, 7)
    /\ state_ = "IDLE"
    /\ composition_ = <<>>
    /\ candidates_ = <<>>
    /\ current_pinyin_ = <<>>
    /\ prediction_engine_ = PredictionEngineInit(FALSE, "missing")
    /\ last = Last("initialize", 0, <<>>, TRUE)
    /\ notes = <<>>
    /\ gen_calls = 0
    /\ dict_candidates = <<>>
    /\ predicted_candidates = <<>>
    /\ upd_state = "none"
    /\ scen = 0
    /\ seen = <<>>
    /\ pattern_order = <<>>

\* Every stored frequency is within MaxLearned increments of a frequency a row
\* can be stored with.
DictBounded(rows) ==
    \A r \in rows : \E f \in DictFrequencies : r.frequency >= f /\ r.frequency <= f + MaxLearned

\* One operation of DictionaryManager took the store to rows and returned ret.
StoreBecomes(rows, op, arg, data, ret) ==
    /\ DictBounded(rows)
    /\ words' = rows
    /\ last' = Last(op, arg, data, ret)
    /\ UNCHANGED <<constructed_with, config_, state_, composition_, candidates_,
                   current_pinyin_, prediction_engine_, notes, gen_calls,
                   dict_candidates, predicted_candidates, upd_state, scen, seen,
                   pattern_order>>

Initialize ==
    StoreBecomes(initialize(words), "initialize", 0, <<>>, TRUE)

AddUserWord(key, frequency) ==
    StoreBecomes(addUserWord(words, key.word, key.pinyin, frequency),
                 "addUserWord", frequency, <<key.word, key.pinyin>>, TRUE)

UpdateWordFrequency(key) ==
    StoreBecomes(updateWordFrequency(words, key.word, key.pinyin),
                 "updateWordFrequency", 0, <<key.word, key.pinyin>>, TRUE)

RemoveUserWord(key) ==
    StoreBecomes(removeUserWord(words, key.word, key.pinyin),
                 "removeUserWord", 0, <<key.word, key.pinyin>>, TRUE)

LearnUserInput(text, pinyin_sequence) ==
    LET learned == learnUserInput(words, text, pinyin_sequence)
    IN  StoreBecomes(learned.rows, "learnUserInput", Len(pinyin_sequence),
                     <<text, JoinPinyin(pinyin_sequence)>>, learned.ret)

ImportDictionary(file, format) ==
    LET imported == importDictionary(words, file, format)
    IN  StoreBecomes(imported.rows, "importDictionary", 0, file.lines, imported.ret)

ExportUserDictionary(open, format) ==
    \E exported \in exportUserDictionary(words, open, format) :
        StoreBecomes(words, "exportUserDictionary", 0,
                     [open |-> exported.written, lines |-> exported.lines], exported.ret)

CleanupLowFrequencyWords(min_frequency) ==
    LET cleaned == cleanupLowFrequencyWords(words, min_frequency)
    IN  StoreBecomes(cleaned.rows, "cleanupLowFrequencyWords", min_frequency, <<>>,
                     cleaned.ret)

DictNext ==
    \/ Initialize
    \/ \E key \in DictKeys, frequency \in DictFrequencies : AddUserWord(key, frequency)
    \/ \E key \in DictKeys : UpdateWordFrequency(key)
    \/ \E key \in DictKeys : RemoveUserWord(key)
    \/ \E text \in LearnTexts, pinyin_sequence \in LearnSequences :
           LearnUserInput(text, pinyin_sequence)
    \/ \E file \in ImportFiles, format \in ImportFormats : ImportDictionary(file, format)
    \/ \E open \in BOOLEAN, format \in ImportFormats : ExportUserDictionary(open, format)
    \/ \E min_frequency \in CleanupThresholds : CleanupLowFrequencyWords(min_frequency)

DictSpec == DictInit /\ [][DictNext]_vars

----------------------------------------------------------------------------
(* The store read by searches *)

\* The keys stored for the searches: three words of two characters with the
\* same pinyin, one of them in ASCII.
SearchKeys ==
    {[word |-> <<20320, 22909>>, pinyin |-> Str("ni hao")],   \* U+4F60 U+597D
     [word |-> <<25311, 22909>>, pinyin |-> Str("ni hao")],   \* U+62DF U+597D
     [word |-> Str("ab"),        pinyin |-> Str("ni hao")]}

\* The frequencies they are stored with: below, at and above the cap.
SearchFrequencies == {SeedFrequency, SeedFrequency + 10, 500, 510}

\* The queries of searchByPinyin and of fuzzySearch, and the limits.
SearchQueries == {Str("ni hao"), Str("ni"), Str("NI"), Str("ni_hao"), Str("s")}
FuzzyQueries == {Str("hao"), Str("nh")}
SearchLimits == {-1, 1, 3}

\* One operation of DictionaryManager took the store to rows and returned the
\* list cands (empty for the operations that return no list).
SearchBecomes(rows, cands, op, arg, data) ==
    /\ words' = rows
    /\ dict_candidates' = cands
    /\ last' = Last(op, arg, data, TRUE)
    /\ UNCHANGED <<constructed_with, config_, state_, composition_, candidates_,
                   current_pinyin_, prediction_engine_, notes, gen_calls,
                   predicted_candidates, upd_state, scen, seen, pattern_order>>

SearchAddUserWord(key, frequency) ==
    SearchBecomes(addUserWord(words, key.word, key.pinyin, frequency), <<>>,
                  "addUserWord", frequency, <<key.word, key.pinyin>>)

SearchRemoveUserWord(key) ==
    SearchBecomes(removeUserWord(words, key.word, key.pinyin), <<>>,
                  "removeUserWord", 0, <<key.word, key.pinyin>>)

SearchByPinyin(pinyin, max_results) ==
    \E cands \in searchByPinyin(words, pinyin, max_results) :
        SearchBecomes(words, cands, "searchByPinyin", max_results, pinyin)

FuzzySearch(partial_pinyin, max_results) ==
    \E cands \in fuzzySearch(words, partial_pinyin, max_results) :
        SearchBecomes(words, cands, "fuzzySearch", max_results, partial_pinyin)

SearchNext ==
    \/ \E key \in SearchKeys, frequency \in SearchFrequencies : SearchAddUserWord(key, frequency)
    \/ \E key \in SearchKeys : SearchRemoveUserWord(key)
    \/ \E pinyin \in SearchQueries, max_results \in SearchLimits :
           SearchByPinyin(pinyin, max_results)
    \/ \E partial_pinyin \in FuzzyQueries, max_results \in SearchLimits :
           FuzzySearch(partial_pinyin, max_results)

SearchSpec == DictInit /\ [][SearchNext]_vars

----------------------------------------------------------------------------
(* The prediction engine on its own *)

\* The pinyin keys and the texts learnUserPattern is called with.
PatternKeys == {Str("ni"), Str("hao"), Str("n")}
PatternTexts == {<<23612>>}                \* U+5C3C

\* The greatest number of texts recorded under one key.
MaxHistory == 2

\* The contexts, partial texts, limits and thresholds the operations are
\* called with.
Contexts == {<<>>, <<20320, 22909>>}       \* none, U+4F60 U+597D
PartialTexts == {<<>>, <<20320>>}          \* none, U+4F60
PredictLimits == {0, 1}
Thresholds == {5, 9, 12}

\* A PredictionEngine just constructed.
PredInit ==
    /\ prediction_engine_ = PredictionEngineNew
    /\ constructed_with = Config(1, TRUE, FALSE, 5)
    /\ config_ = Config(1, TRUE, FALSE, 5)
    /\ state_ = "IDLE"
    /\ composition_ = <<>>
    /\ candidates_ = <<>>
    /\ current_pinyin_ = <<>>
    /\ words = {}
    /\ last = Last("PredictionEngine", 0, <<>>, TRUE)
    /\ notes = <<>>
    /\ gen_calls = 0
    /\ dict_candidates = <<>>
    /\ predicted_candidates = <<>>
    /\ upd_state = "none"
    /\ scen = 0
    /\ seen = <<>>
    /\ pattern_order = <<>>

\* One operation of PredictionEngine took the engine to pe, returned the list
\* predictions and made calls calls of generateText.
PredBecomes(pe, order, predictions, calls, op, arg, data, ret) ==
    /\ prediction_engine_' = pe
    /\ pattern_order' = order
    /\ predicted_candidates' = predictions
    /\ gen_calls' = calls
    /\ last' = Last(op, arg, data, ret)
    /\ UNCHANGED <<constructed_with, config_, state_, composition_, candidates_,
                   current_pinyin_, words, notes, dict_candidates, upd_state, scen, seen>>

PredInitialize(outcome) ==
    LET r == PredictionInitialize(prediction_engine_, outcome)
    IN  PredBecomes(r.pe, pattern_order, <<>>, 0, "initialize", 0, outcome, r.ret)

PredShutdown ==
    PredBecomes(PredictionShutdown(prediction_engine_), pattern_order, <<>>, 0,
                "shutdown", 0, <<>>, TRUE)

SetPredictionThreshold(threshold) ==
    PredBecomes(setPredictionThreshold(prediction_engine_, threshold), pattern_order, <<>>, 0,
                "setPredictionThreshold", threshold, <<>>, TRUE)

LearnUserPattern(input_sequence, selected_text) ==
    /\ IF input_sequence \in DOMAIN prediction_engine_.user_patterns_
       THEN Len(prediction_engine_.user_patterns_[input_sequence]) < MaxHistory
       ELSE TRUE
    /\ \E r \in learnUserPattern(prediction_engine_, input_sequence, selected_text) :
           PredBecomes(r.pe,
                       SelectSeq(IF \/ ~isAvailable(prediction_engine_)
                                    \/ input_sequence \in DOMAIN prediction_engine_.user_patterns_
                                 THEN pattern_order
                                 ELSE Append(pattern_order, input_sequence),
                                 LAMBDA k : <<k>> # r.erased),
                       <<>>, 0, "learnUserPattern", 0,
                       <<input_sequence, selected_text, r.erased>>, TRUE)

PredictFromPinyin(pinyin_sequence, context, max_predictions) ==
    \E r \in predictFromPinyin(prediction_engine_, pinyin_sequence, context, max_predictions) :
        PredBecomes(prediction_engine_, pattern_order, r.predictions, r.calls,
                    "predictFromPinyin", max_predictions, <<pinyin_sequence, context>>, TRUE)

PredictNextWords(context, max_predictions) ==
    \E r \in predictNextWords(prediction_engine_, context, max_predictions) :
        PredBecomes(prediction_engine_, pattern_order, r.predictions, r.calls,
                    "predictNextWords", max_predictions, <<context>>, TRUE)

CompletePartialInput(partial_text, max_completions) ==
    \E r \in completePartialInput(prediction_engine_, partial_text, max_completions) :
        PredBecomes(prediction_engine_, pattern_order, r.predictions, r.calls,
                    "completePartialInput", max_completions, <<partial_text>>, TRUE)

PredNext ==
    \/ \E outcome \in InitializeOutcomes : PredInitialize(outcome)
    \/ PredShutdown
    \/ \E threshold \in Thresholds : SetPredictionThreshold(threshold)
    \/ \E input_sequence \in PatternKeys, selected_text \in PatternTexts :
           LearnUserPattern(input_sequence, selected_text)
    \/ \E pinyin_sequence \in PatternKeys, context \in Contexts, max_predictions \in PredictLimits :
           PredictFromPinyin(pinyin_sequence, context, max_predictions)
    \/ \E context \in Contexts, max_predictions \in PredictLimits :
           PredictNextWords(context, max_predictions)
    \/ \E partial_text \in PartialTexts, max_completions \in PredictLimits :
           CompletePartialInput(partial_text, max_completions)

PredSpec == PredInit /\ [][PredNext]_vars

----------------------------------------------------------------------------
(* The claims *)

NiHao == <<20320, 22909>>   \* U+4F60 U+597D

IsCommitNote(n) == n.type = "commit"
IsCandidateNote(n) == n.type = "candidates"
IsLetter(ch) == (ch >= ChLowerA /\ ch <= ChLowerZ) \/ (ch >= ChUpperA /\ ch <= ChUpperZ)

\* C1: from IDLE with an empty buffer and a store holding ("ni hao" word, "ni hao",
\* 100), the key presses n, i, h, a, o end with buffer "nihao", state SELECTING
\* and the word among the candidates.
C1_ScenarioNiHao ==
    scen = Len(ScenarioKeys) =>
        /\ composition_ = Str("nihao")
        /\ current_pinyin_ = Str("nihao")
        /\ state_ = "SELECTING"
        /\ \E i \in 1..Len(candidates_) : candidates_[i].text = NiHao

\* C2: selectCandidate(i) with i within the candidate list returns true, commits
\* candidates[i].text exactly once, and leaves IDLE, an empty buffer and an empty
\* list; with enable_learning the row of (text, pinyin) gains exactly 1 and no
\* other row changes, without it the store is unchanged.
C2_SelectCandidate ==
    [][(last'.op = "selectCandidate" /\ last'.arg >= 0 /\ last'.arg < Len(candidates_)) =>
        LET c == candidates_[last'.arg + 1] IN
        /\ last'.ret
        /\ SelectSeq(notes', IsCommitNote) = <<CommitNote(c.text)>>
        /\ state_' = "IDLE"
        /\ composition_' = <<>>
        /\ current_pinyin_' = <<>>
        /\ candidates_' = <<>>
        /\ Cardinality(words') = Cardinality(words)
        /\ \A r \in words :
               IF config_.enable_learning /\ r.word = c.text /\ r.pinyin = c.pinyin
               THEN Row(r.word, r.pinyin, r.frequency + 1, r.is_user_word) \in words'
               ELSE r \in words'
      ]_vars

\* C2's case: index 0 selected the built-in word with learning on, and its
\* frequency went from 100 to 101.
C2_Witness ==
    /\ last.op = "selectCandidate" /\ last.arg = 0 /\ last.ret
    /\ config_.enable_learning
    /\ notes[1] = CommitNote(NiHao)
    /\ Row(NiHao, Str("ni hao"), SeedFrequency + 1, FALSE) \in words

\* C3: addChar(ch) on buffer B returns true and makes the buffer B+ch if and
\* only if some syllable of the table has B+ch as a prefix; otherwise it returns
\* false and the buffer stays B.
C3_PrefixGate ==
    [][last'.op = "addChar" =>
        LET test == Append(current_pinyin_, last'.arg) IN
        IF \E syllable \in STANDARD_PINYINS : IsPrefix(test, syllable)
        THEN last'.ret /\ current_pinyin_' = test
        ELSE ~last'.ret /\ current_pinyin_' = current_pinyin_
      ]_vars

\* C3's case: h was rejected on buffer "ni".
C3_Witness ==
    /\ last.op = "addChar" /\ last.arg = Ord("h") /\ ~last.ret
    /\ current_pinyin_ = Str("ni")

\* C4: clearComposition(), the clear-composition event and Escape leave IDLE, an
\* empty buffer, an empty list, and deliver one candidates-changed notification
\* with the empty list, as the last notification.
C4_ClearComposition ==
    (\/ last.op \in {"clearComposition", "clearCompositionEvent"}
     \/ last.op = "keyPress" /\ last.arg = 27) =>
        /\ last.ret
        /\ state_ = "IDLE"
        /\ composition_ = <<>>
        /\ current_pinyin_ = <<>>
        /\ candidates_ = <<>>
        /\ SelectSeq(notes, IsCandidateNote) = <<CandidateNote(<<>>)>>
        /\ notes[Len(notes)] = CandidateNote(<<>>)

\* C4's case: clearComposition() on an engine that was already IDLE (no state
\* change was notified) still delivered the empty list.
C4_Witness ==
    /\ last.op = "clearComposition"
    /\ notes = <<CandidateNote(<<>>)>>

\* C5: in COMPOSING or SELECTING, an accepted letter or a Backspace that leaves a
\* non-empty buffer, with a non-empty candidate list after it, ends in SELECTING.
C5_SelectingAfterChange ==
    [][(/\ state_ \in {"COMPOSING", "SELECTING"}
        /\ last'.op = "keyPress" /\ last'.ret
        /\ (IsLetter(CharOf(last'.arg)) \/ last'.arg = 8)
        /\ current_pinyin_' # <<>>
        /\ candidates_' # <<>>) =>
            state_' = "SELECTING"
      ]_vars

C7_Count(list, text) == Cardinality({k \in 1..Len(list) : list[k].text = text})

\* C7 as the specification states it: when the store and the predictor both
\* returned text T for the same query, the merged list holds T exactly once,
\* with is_prediction = false.
C7_MergeDedup ==
    \A i \in 1..Len(dict_candidates) : \A j \in 1..Len(predicted_candidates) :
        dict_candidates[i].text = predicted_candidates[j].text =>
            /\ C7_Count(candidates_, dict_candidates[i].text) = 1
            /\ \A k \in 1..Len(candidates_) :
                   candidates_[k].text = dict_candidates[i].text =>
                       ~candidates_[k].is_prediction

\* C7, amended: when the store and the predictor both returned text T for the
\* same query, no candidate of the merged list with text T is a prediction, and
\* if the store returned T in exactly one entry the merged list holds T exactly
\* once.
C7_MergeDedupPerStoreEntry ==
    \A i \in 1..Len(dict_candidates) : \A j \in 1..Len(predicted_candidates) :
        dict_candidates[i].text = predicted_candidates[j].text =>
            /\ \A k \in 1..Len(candidates_) :
                   candidates_[k].text = dict_candidates[i].text =>
                       ~candidates_[k].is_prediction
            /\ C7_Count(dict_candidates, dict_candidates[i].text) = 1 =>
                   C7_Count(candidates_, dict_candidates[i].text) = 1

\* C7's case: the store returned U+4F60 U+597D in one entry, the predictor
\* returned it with a score that passes the threshold, the list had room for
\* one more candidate, and the merged list holds it once.
C7_Witness ==
    /\ C7_Count(dict_candidates, NiHao) = 1
    /\ \E j \in 1..Len(predicted_candidates) :
           /\ predicted_candidates[j].text = NiHao
           /\ predicted_candidates[j].score >= config_.prediction_threshold
    /\ Len(dict_candidates) < config_.max_candidates
    /\ candidates_ = dict_candidates

\* C8: a controller constructed with enable_prediction = false never invokes
\* the predictor.
C8_NeverInvoked ==
    ~constructed_with.enable_prediction => gen_calls = 0

\* C8's case: a controller constructed without prediction, later configured with
\* enable_prediction = true, accepted a letter and recomputed its candidates.
C8_Witness ==
    /\ ~constructed_with.enable_prediction
    /\ config_.enable_prediction
    /\ last.op = "keyPress" /\ last.ret
    /\ upd_state = "SELECTING"
    /\ composition_ # <<>>

\* C9: once the configuration in force has enable_prediction = false, no event
\* invokes the predictor.
C9_ConfigRespected ==
    ~config_.enable_prediction => gen_calls = 0

\* C10's rejected events, read off the state before the event and the event.
C10_Rejected ==
    \/ /\ last'.op = "keyPress"
       /\ IsLetter(CharOf(last'.arg))
       /\ ~addChar(current_pinyin_, ToLower(CharOf(last'.arg))).ret
    \/ /\ last'.op = "keyPress"
       /\ CharOf(last'.arg) >= Ch1 /\ CharOf(last'.arg) <= Ch9
       /\ CharOf(last'.arg) - Ch1 >= Len(candidates_)
    \/ /\ last'.op = "keyPress"
       /\ last'.arg \in {8, 13}
       /\ composition_ = <<>>
    \/ /\ last'.op = "selectCandidate"
       /\ (last'.arg < 0 \/ last'.arg >= Len(candidates_))
    \/ /\ last'.op = "candidateSelect"
       /\ candidates_ = <<>>
    \/ last'.op = "keyRelease"

\* C10: every rejected event returns failure, and an event that returns failure
\* leaves configuration, buffer, candidate list, state and store unchanged,
\* delivers no notification and does not invoke the predictor.
C10_RejectedNoChange ==
    [][/\ C10_Rejected => ~last'.ret
       /\ ~last'.ret =>
              /\ UNCHANGED <<config_, state_, composition_, current_pinyin_,
                             candidates_, words, prediction_engine_>>
              /\ notes' = <<>>
              /\ gen_calls' = 0
      ]_vars

\* C10's case: the digit 2 was pressed with one candidate in the list, and was
\* rejected with the list still in place.
C10_Witness ==
    /\ last.op = "keyPress" /\ last.arg = Ord("2") /\ ~last.ret
    /\ Len(candidates_) = 1
    /\ state_ = "SELECTING"
    /\ notes = <<>>

\* C11: Enter on a non-empty buffer B delivers exactly one text-committed
\* notification, with text B, leaves the store as it was, and ends in IDLE with
\* an empty buffer and an empty list.
C11_EnterCommitsBuffer ==
    [][(last'.op = "keyPress" /\ last'.arg = 13 /\ composition_ # <<>>) =>
        /\ last'.ret
        /\ SelectSeq(notes', IsCommitNote) = <<CommitNote(composition_)>>
        /\ words' = words
        /\ state_' = "IDLE"
        /\ composition_' = <<>>
        /\ current_pinyin_' = <<>>
        /\ candidates_' = <<>>
      ]_vars

\* C11's case: Enter committed the buffer "ni" while the list offered a word.
C11_Witness ==
    /\ last.op = "keyPress" /\ last.arg = 13 /\ last.ret
    /\ notes[1] = CommitNote(Str("ni"))
    /\ state_ = "IDLE"

\* C12: a commit-text event on a non-empty composition delivers the composition
\* string as the committed text, whatever its payload, and clears the
\* composition.
C12_CommitTextEmitsComposition ==
    [][(last'.op = "commitText" /\ composition_ # <<>>) =>
        /\ SelectSeq(notes', IsCommitNote) = <<CommitNote(composition_)>>
        /\ state_' = "IDLE"
        /\ composition_' = <<>>
        /\ candidates_' = <<>>
      ]_vars

\* C13: Backspace on a non-empty buffer removes exactly the last letter; when
\* the buffer becomes empty the controller ends as after clearComposition,
\* otherwise the candidate list is recomputed for the shortened buffer and
\* published.
C13_Backspace ==
    [][(last'.op = "keyPress" /\ last'.arg = 8 /\ composition_ # <<>>) =>
        LET shortened == SubSeq(composition_, 1, Len(composition_) - 1)
            cleared == clearComposition(Machine)
        IN  /\ last'.ret
            /\ composition_' = shortened
            /\ current_pinyin_' = shortened
            /\ words' = words
            /\ IF shortened = <<>>
               THEN /\ state_' = "IDLE" /\ state_' = cleared.state_
                    /\ candidates_' = <<>> /\ candidates_' = cleared.candidates_
                    /\ composition_' = cleared.composition_
                    /\ current_pinyin_' = cleared.current_pinyin_
                    /\ notes' = cleared.notes
                    /\ notes'[Len(notes')] = CandidateNote(<<>>)
               ELSE /\ upd_state' = "SELECTING"
                    /\ dict_candidates' \in
                           searchByPinyin(words, shortened, config_.max_candidates)
                    /\ \A k \in 1..Len(candidates_') :
                           \/ \E i \in 1..Len(dict_candidates') :
                                  candidates_'[k] = dict_candidates'[i]
                           \/ \E j \in 1..Len(predicted_candidates') :
                                  candidates_'[k] = predicted_candidates'[j]
                    /\ notes'[Len(notes')] = CandidateNote(candidates_')
      ]_vars

\* C13's case: Backspace took the buffer from "ni" to "n", for which the store
\* has two entries.
C13_Witness ==
    /\ last.op = "keyPress" /\ last.arg = 8 /\ last.ret
    /\ composition_ = Str("n")
    /\ Len(candidates_) = 2
    /\ config_.max_candidates = 2

\* C14: a key press of a digit d in 1..9 has the result, the notifications and
\* the final state of selectCandidate(d - 1).
C14_DigitIsSelect ==
    [][(last'.op = "keyPress" /\ CharOf(last'.arg) >= Ch1 /\ CharOf(last'.arg) <= Ch9) =>
        LET selected == selectCandidate(Machine, CharOf(last'.arg) - Ch1)
        IN  /\ last'.ret = selected.ret
            /\ last'.ret = (CharOf(last'.arg) - Ch1 < Len(candidates_))
            /\ notes' = selected.m.notes
            /\ state_' = selected.m.state_
            /\ composition_' = selected.m.composition_
            /\ current_pinyin_' = selected.m.current_pinyin_
            /\ candidates_' = selected.m.candidates_
            /\ words' = selected.m.words
            /\ config_' = selected.m.config_
      ]_vars

\* C14's case: the digit 2 selected the second of two candidates.
C14_Witness ==
    /\ last.op = "keyPress" /\ last.arg = Ord("2") /\ last.ret
    /\ notes # <<>> /\ notes[1] = CommitNote(NiHao)
    /\ state_ = "IDLE"

\* Whether a candidate list is ordered by score descending.
C15_Sorted(list) == \A i \in 1..(Len(list) - 1) : list[i].score >= list[i + 1].score

\* C15 as the specification states it: in every state the controller's list is
\* ordered by score descending and holds at most max_candidates entries, and
\* so does every list a candidates-changed notification delivered.
C15_RankedAndBounded ==
    /\ C15_Sorted(candidates_)
    /\ Len(candidates_) <= config_.max_candidates
    /\ \A n \in 1..Len(notes) :
           notes[n].type = "candidates" =>
               /\ C15_Sorted(notes[n].list)
               /\ Len(notes[n].list) <= config_.max_candidates

\* C15, amended: the controller's list is always ordered by score descending;
\* every list a notification delivers is ordered and holds at most the
\* max_candidates in force at that event; and the controller's list holds at
\* most max_candidates entries after every operation other than one that left
\* the list as it was (updateConfig lowering max_candidates, or a rejected
\* event after it).
C15_RankedAndBoundedWhenComputed ==
    [][/\ C15_Sorted(candidates_')
       /\ \A n \in 1..Len(notes') :
              notes'[n].type = "candidates" =>
                  /\ C15_Sorted(notes'[n].list)
                  /\ Len(notes'[n].list) <= config_'.max_candidates
       /\ \/ Len(candidates_') <= config_'.max_candidates
          \/ candidates_' = candidates_
      ]_vars

\* C15's case: the store filled the list, a prediction with a new text passed
\* the filter, and the published list was cut back to max_candidates.
C15_Witness ==
    /\ Len(dict_candidates) = config_.max_candidates
    /\ \E j \in 1..Len(predicted_candidates) :
           /\ predicted_candidates[j].score >= config_.prediction_threshold
           /\ \A i \in 1..Len(dict_candidates) :
                  dict_candidates[i].text # predicted_candidates[j].text
    /\ Len(candidates_) = config_.max_candidates
    /\ notes # <<>> /\ notes[Len(notes)] = CandidateNote(candidates_)

\* The candidates before the sort: the store's results, then the predictions
\* that passed the filter.
C16_Merged == FilterPredictions(dict_candidates, predicted_candidates, config_.prediction_threshold)

\* C16: after a recomputation, two listed candidates of equal score stand in
\* the order they had before the sort.
C16_TiesKeepOrder ==
    upd_state = "SELECTING" =>
        \A i, j \in 1..Len(candidates_) :
            (i < j /\ candidates_[i].score = candidates_[j].score) =>
                \E a, b \in 1..Len(C16_Merged) :
                    /\ a < b
                    /\ C16_Merged[a] = candidates_[i]
                    /\ C16_Merged[b] = candidates_[j]

\* The greatest number of repeated calls C17 is checked for.
MaxRepeat == 3

\* updateWordFrequency(word, pinyin) called n times.
RECURSIVE C17_Repeat(_, _, _, _)
C17_Repeat(rows, word, pinyin, n) ==
    IF n = 0 THEN rows
    ELSE C17_Repeat(updateWordFrequency(rows, word, pinyin), word, pinyin, n - 1)

\* C17: for a stored pair (w, p), n calls of updateWordFrequency(w, p) raise
\* its frequency by exactly n, create no row, and leave every other row and the
\* pair's is_user_word as they were.
C17_RepeatedLearning ==
    [][(last'.op = "updateWordFrequency"
        /\ HasRow(words, last'.data[1], last'.data[2])) =>
        LET w == last'.data[1]
            p == last'.data[2]
        IN  /\ words' = C17_Repeat(words, w, p, 1)
            /\ \A n \in 0..MaxRepeat :
                   /\ C17_Repeat(words, w, p, n) =
                          {IF r.word = w /\ r.pinyin = p
                           THEN Row(r.word, r.pinyin, r.frequency + n, r.is_user_word)
                           ELSE r : r \in words}
                   /\ Cardinality(C17_Repeat(words, w, p, n)) = Cardinality(words)
      ]_vars

\* C17's case: the basic word's frequency was raised from 100 to 101 while the
\* same word is also stored under another spelling, which kept its frequency.
C17_Witness ==
    /\ last.op = "updateWordFrequency" /\ last.data = <<NiHao, Str("ni hao")>>
    /\ Row(NiHao, Str("ni hao"), SeedFrequency + 1, FALSE) \in words
    /\ Row(NiHao, Str("nh"), SeedFrequency, TRUE) \in words

\* C18: updateWordFrequency on a pair that is not stored, and removeUserWord
\* on a pair that is absent or is a system entry, leave the store unchanged and
\* return true.
C18_SilentMisses ==
    [][(\/ /\ last'.op = "updateWordFrequency"
           /\ ~HasRow(words, last'.data[1], last'.data[2])
        \/ /\ last'.op = "removeUserWord"
           /\ ~\E r \in words : /\ r.word = last'.data[1]
                                /\ r.pinyin = last'.data[2]
                                /\ r.is_user_word) =>
            /\ words' = words
            /\ last'.ret
      ]_vars

\* C18's case: removeUserWord was called on the basic word, a system entry, and
\* the entry is still stored.
C18_Witness ==
    /\ last.op = "removeUserWord" /\ last.data = <<NiHao, Str("ni hao")>> /\ last.ret
    /\ \E r \in words : r.word = NiHao /\ r.pinyin = Str("ni hao") /\ ~r.is_user_word

C20_FrequencyNeverFalls ==
    [][last'.op \in {"learnUserInput", "updateWordFrequency"} =>
        \A r \in words : \A s \in words' :
            (s.word = r.word /\ s.pinyin = r.pinyin) =>
                /\ s.frequency >= r.frequency
                /\ (/\ last'.op = "learnUserInput" /\ last'.ret
                    /\ last'.data = <<r.word, r.pinyin>>) => s.frequency > r.frequency
      ]_vars
\* C21: addUserWord(w, p, f) followed by removeUserWord(w, p) leaves no row for
\* (w, p) and reports no error; a second removeUserWord(w, p) in the state
\* reached leaves the store as it is.
C21_AddThenRemove ==
    [][last'.op = "removeUserWord" =>
        LET word == last'.data[1]
            pinyin == last'.data[2]
        IN  /\ last'.ret
            /\ (last.op = "addUserWord" /\ last.data = last'.data)
                   => ~HasRow(words', word, pinyin)
            /\ removeUserWord(words', word, pinyin) = words']_vars

\* The basic word was stored as a user word and removed: no row is left for it.
C21_Witness ==
    /\ last.op = "removeUserWord" /\ last.data = <<NiHao, Str("ni hao")>>
    /\ ~HasRow(words, NiHao, Str("ni hao"))

\* C22: removeUserWord and cleanupLowFrequencyWords delete no row whose
\* is_user_word is false; cleanupLowFrequencyWords(min) deletes exactly the user
\* rows whose frequency is below min, returns their number and leaves every
\* other row as it was.
C22_SystemRowsStay ==
    [][/\ last'.op \in {"removeUserWord", "cleanupLowFrequencyWords"} =>
            \A r \in words : ~r.is_user_word => r \in words'
       /\ last'.op = "cleanupLowFrequencyWords" =>
            LET deleted == {r \in words : r.is_user_word /\ r.frequency < last'.arg}
            IN  /\ words' = words \ deleted
                /\ last'.ret = Cardinality(deleted)]_vars

\* A cleanup deleted two user words and the system words below the threshold
\* are still stored.
C22_Witness ==
    /\ last.op = "cleanupLowFrequencyWords" /\ last.ret = 2
    /\ \E r \in words : ~r.is_user_word /\ r.frequency < last.arg

\* C23: searchByPinyin(q, max) returns only entries whose stored pinyin equals
\* q or starts with q, by frequency descending and, at equal frequency, shorter
\* word first; it returns min(max, number of matching entries) results, the
\* first ones in that order.
C23_PrefixSearch ==
    last.op = "searchByPinyin" =>
        LET q == last.data
            matching == {r \in words : r.pinyin = q \/ IsPrefix(q, r.pinyin)}
            returned == {Row(c.text, c.pinyin, c.frequency, is_user_word) :
                            c \in Range(dict_candidates), is_user_word \in BOOLEAN} \cap words
        IN  /\ \A i \in 1..Len(dict_candidates) :
                   \E r \in matching :
                       /\ r.word = dict_candidates[i].text
                       /\ r.pinyin = dict_candidates[i].pinyin
                       /\ r.frequency = dict_candidates[i].frequency
            /\ \A i \in 1..(Len(dict_candidates) - 1) :
                   LET a == dict_candidates[i]
                       b == dict_candidates[i + 1]
                   IN  \/ a.frequency > b.frequency
                       \/ a.frequency = b.frequency /\ CharLength(a.text) <= CharLength(b.text)
            /\ Len(dict_candidates) = Min(last.arg, Cardinality(matching))
            /\ \A r \in matching \ returned : \A s \in returned : OrderedBefore(s, r)

\* The match bonus, in tenths: 30 when the stored pinyin equals the query, 20
\* when the query is a proper prefix of it, 10 when the query occurs elsewhere
\* in it, 0 otherwise.
C25_MatchBonus(stored, query) ==
    IF stored = query THEN 300
    ELSE IF IsPrefix(query, stored) THEN 200
    ELSE IF \E i \in 1..(Len(stored) - Len(query)) :
                SubSeq(stored, i + 1, i + Len(query)) = query THEN 100
    ELSE 0

\* The list the last step returned is the result of a search for last.data.
C24_Searched == last.op \in {"searchByPinyin", "fuzzySearch"}

\* The frequency term of a returned candidate, in tenths, when the length term
\* is the one of a word of that length.
C24_FrequencyTerm(c, length) ==
    c.score - 10 * Max(0, 20 - length) - C25_MatchBonus(c.pinyin, last.data)

C25_ScoreOfNiHao ==
    C24_Searched =>
        \A i \in 1..Len(dict_candidates) :
            LET c == dict_candidates[i]
            IN  (c.text = NiHao /\ c.pinyin = Str("ni hao") /\ c.frequency = 100)
                    => c.score = 280 + C25_MatchBonus(c.pinyin, last.data)

\* The sequences of table syllables whose concatenation is s.
RECURSIVE C26_Partitions(_)
C26_Partitions(s) ==
    IF s = <<>> THEN {<<>>}
    ELSE UNION {{<<SubSeq(s, 1, n)>> \o rest : rest \in C26_Partitions(SubSeq(s, n + 1, Len(s)))} :
                   n \in {k \in 1..Len(s) : SubSeq(s, 1, k) \in STANDARD_PINYINS}}

\* The concatenation of the strings of the sequence segments.
RECURSIVE C26_Concat(_)
C26_Concat(segments) ==
    IF segments = <<>> THEN <<>> ELSE Head(segments) \o C26_Concat(Tail(segments))

\* C26: getPinyinSegments() returns exactly the partitions of the buffer into
\* table syllables: every returned sequence concatenates to the buffer and
\* consists of valid syllables, every such partition is returned exactly once,
\* the result is empty for an empty buffer, and for the buffer "xian" it
\* contains both ("xi", "an") and ("xian").
C26_AllPartitions ==
    last.op = "getPinyinSegments" =>
        LET results == last.data
        IN  /\ \A i \in 1..Len(results) :
                   /\ C26_Concat(results[i]) = current_pinyin_
                   /\ \A j \in 1..Len(results[i]) : results[i][j] \in STANDARD_PINYINS
            /\ current_pinyin_ = <<>> => results = <<>>
            /\ current_pinyin_ # <<>> =>
                   \A partition \in C26_Partitions(current_pinyin_) :
                       Cardinality({i \in 1..Len(results) : results[i] = partition}) = 1
            /\ current_pinyin_ = Str("xian") =>
                   /\ \E i \in 1..Len(results) : results[i] = <<Str("xi"), Str("an")>>
                   /\ \E i \in 1..Len(results) : results[i] = <<Str("xian")>>

\* The segments of the buffer "xian" were asked for and there are two.
C26_Witness ==
    /\ last.op = "getPinyinSegments" /\ current_pinyin_ = Str("xian")
    /\ Len(last.data) = 2

\* C27: calculatePinyinScore(word, pinyin, context) is min(1.0, 0.6 + h + c),
\* with h = 0.3 if word is in the history recorded for exactly that pinyin and
\* c = 0.1 if the context is non-empty and does not contain word: every score
\* predictFromPinyin returns is that number, one of 0.6, 0.7, 0.9, 1.0.
C27_PinyinScore ==
    last.op = "predictFromPinyin" =>
        \A i \in 1..Len(predicted_candidates) :
            LET word == predicted_candidates[i].text
                pinyin == last.data[1]
                context == last.data[2]
                patterns == prediction_engine_.user_patterns_
                h == IF pinyin \in DOMAIN patterns /\ word \in Range(patterns[pinyin])
                     THEN 3 ELSE 0
                c == IF context # <<>> /\ Find(context, word) = -1 THEN 1 ELSE 0
            IN  /\ predicted_candidates[i].score = Min(10, 6 + h + c)
                /\ predicted_candidates[i].score \in {6, 7, 9, 10}

\* C28: after any learnUserPattern the history holds at most MaxPatterns keys;
\* a key that is erased is the one entered earliest among those held, never
\* the key just learned, so the keys entered last are the ones kept.
C28_OldestEvicted ==
    [][last'.op = "learnUserPattern" =>
        LET input_sequence == last'.data[1]
            erased == last'.data[3]
            entered == IF \/ ~isAvailable(prediction_engine_)
                          \/ input_sequence \in DOMAIN prediction_engine_.user_patterns_
                       THEN pattern_order
                       ELSE Append(pattern_order, input_sequence)
        IN  /\ Cardinality(DOMAIN prediction_engine_'.user_patterns_) <= MaxPatterns
            /\ erased # <<>> =>
                   /\ erased[1] = entered[1]
                   /\ erased[1] # input_sequence
            /\ DOMAIN prediction_engine_'.user_patterns_ =
                   {entered[i] : i \in (Len(entered) - Min(Len(entered), MaxPatterns) + 1)..Len(entered)}]_vars

\* C29: the engine becomes available only by an initialize that succeeded with
\* a model the collaborator reports loaded, and a shutdown leaves it
\* unavailable; while it is unavailable predictFromPinyin, predictNextWords and
\* completePartialInput return an empty list, normally, without a call of
\* generateText.
C29_Unavailable ==
    [][/\ (~isAvailable(prediction_engine_) /\ isAvailable(prediction_engine_')) =>
            (last'.op = "initialize" /\ last'.data = "loaded" /\ last'.ret)
       /\ isAvailable(prediction_engine_') =>
            (prediction_engine_'.initialized_ /\ prediction_engine_'.model_loaded_)
       /\ last'.op = "shutdown" => ~isAvailable(prediction_engine_')
       /\ (/\ last'.op \in {"predictFromPinyin", "predictNextWords", "completePartialInput"}
           /\ ~(prediction_engine_.initialized_ /\ prediction_engine_.model_loaded_)) =>
            (predicted_candidates' = <<>> /\ gen_calls' = 0 /\ last'.ret)]_vars

\* A prediction was asked of an engine whose initialize succeeded but whose
\* collaborator has no model loaded: nothing was generated.
C29_Witness ==
    /\ last.op = "predictFromPinyin" /\ last.arg = 1
    /\ prediction_engine_.initialized_ /\ ~prediction_engine_.model_loaded_
    /\ predicted_candidates = <<>> /\ gen_calls = 0

\* The index of the candidate a step selected, or -1 when the step was not a
\* successful selection (by selectCandidate, a candidate-select event or a
\* digit key).
C30_SelectedIndex ==
    IF last'.op = "selectCandidate" /\ last'.ret THEN last'.arg
    ELSE IF last'.op = "candidateSelect" /\ last'.ret THEN Stoi(last'.data).value
    ELSE IF last'.op = "keyPress" /\ DigitSelects(Machine, CharOf(last'.arg))
         THEN CharOf(last'.arg) - Ch1
    ELSE -1

\* C30: a successful selection delivers exactly the text-committed
\* notification, then the state-changed notification to IDLE, then the
\* candidates-changed notification with the empty list, all before the
\* operation returns; the frequency update (when learning is enabled) is already
\* in the store when the first is delivered, and at that moment the engine
\* still reports the buffer, the candidate list and the state it had before
\* the selection.
C30_SelectionOrder ==
    [][C30_SelectedIndex # -1 =>
        LET c == candidates_[C30_SelectedIndex + 1]
        IN  /\ notes' = <<CommitNote(c.text), StateNote("IDLE"), CandidateNote(<<>>)>>
            /\ Len(seen') = 3
            /\ seen'[1].words = IF config_.enable_learning
                                THEN updateWordFrequency(words, c.text, c.pinyin)
                                ELSE words
            /\ seen'[1].words = words'
            /\ seen'[1].composition_ = composition_
            /\ seen'[1].candidates_ = candidates_
            /\ seen'[1].state_ = state_
            /\ seen'[2].state_ = "IDLE"
            /\ seen'[3].candidates_ = <<>>
      ]_vars

\* C30's case: with learning enabled the digit 1 selected the dictionary's word
\* for the buffer "ni"; its frequency was already raised when the commit was
\* delivered, and the buffer and the list were still there.
C30_Witness ==
    /\ last.op = "keyPress" /\ last.arg = Ord("1") /\ last.ret
    /\ config_.enable_learning
    /\ notes = <<CommitNote(NiHao), StateNote("IDLE"), CandidateNote(<<>>)>>
    /\ Len(seen) = 3
    /\ seen[1].composition_ = Str("ni")
    /\ seen[1].candidates_ # <<>> /\ seen[1].candidates_[1].text = NiHao
    /\ seen[1].state_ = "COMPOSING"
    /\ Row(NiHao, Str("ni hao"), SeedFrequency + 1, FALSE) \in seen[1].words
    /\ composition_ = <<>> /\ candidates_ = <<>> /\ state_ = "IDLE"

\* The public operations of the controller that C31 speaks of.
C31_Operations ==
    {"keyPress", "keyRelease", "candidateSelect", "commitText", "clearCompositionEvent",
     "selectCandidate", "commitComposition", "clearComposition"}

\* C31: after every public controller operation the state is IDLE exactly when
\* the segmenter's buffer is empty, the composition string equals the
\* segmenter's buffer, and the candidate list is empty whenever the buffer is
\* empty.
C31_StateFollowsBuffer ==
    last.op \in C31_Operations =>
        /\ (state_ = "IDLE") <=> (current_pinyin_ = <<>>)
        /\ composition_ = current_pinyin_
        /\ current_pinyin_ = <<>> => candidates_ = <<>>

\* C31's case: Backspace emptied a one-letter buffer, and the engine went back
\* to IDLE with no candidates.
C31_Witness ==
    /\ last.op = "keyPress" /\ last.arg = 8 /\ last.ret
    /\ current_pinyin_ = <<>> /\ composition_ = <<>> /\ candidates_ = <<>>
    /\ state_ = "IDLE"
    /\ notes = <<StateNote("IDLE"), CandidateNote(<<>>)>>

\* C32: the buffer is always a prefix of one syllable of the table, so it
\* never holds more than the 6 letters of the longest syllable and never spans
\* two syllables: "nih" is not reached.
C32_OneSyllable ==
    /\ \E pinyin \in STANDARD_PINYINS : IsPrefix(current_pinyin_, pinyin)
    /\ \A pinyin \in STANDARD_PINYINS : Len(pinyin) <= 6
    /\ Len(current_pinyin_) <= 6
    /\ current_pinyin_ # Str("nih")

\* C32's case: the buffer holds a syllable of 6 letters and a further letter
\* was rejected.
C32_Witness ==
    /\ last.op = "addChar" /\ last.arg \in valid_chars_ /\ ~last.ret
    /\ Len(current_pinyin_) = 6
    /\ current_pinyin_ \in STANDARD_PINYINS

\* Whether in a candidate list every dictionary candidate stands before every
\* candidate of the prediction engine, the first scoring at least 20 and the
\* second at most 1.0.
C33_DictionaryBeforeAI(list) ==
    /\ \A i \in 1..Len(list) :
           IF list[i].is_prediction THEN list[i].score <= 10 ELSE list[i].score >= 200
    /\ \A i \in 1..Len(list) : \A j \in 1..Len(list) :
           (~list[i].is_prediction /\ list[j].is_prediction) => i < j

\* C33: in the controller's list and in every list published, every dictionary
\* candidate precedes every candidate of the prediction engine; and when the
\* store returned max_candidates results, the one guess still asked of the
\* prediction engine is not in the list.
C33_DictionaryFirst ==
    /\ C33_DictionaryBeforeAI(candidates_)
    /\ \A n \in 1..Len(notes) :
           notes[n].type = "candidates" => C33_DictionaryBeforeAI(notes[n].list)
    /\ (/\ upd_state # "none" /\ composition_ # <<>>
        /\ Len(dict_candidates) = config_.max_candidates) =>
           /\ Len(predicted_candidates) <= 1
           /\ \A i \in 1..Len(candidates_) : ~candidates_[i].is_prediction
           /\ \A n \in 1..Len(notes) : \A i \in 1..Len(notes[n].list) :
                  ~notes[n].list[i].is_prediction

\* C33's case: the store returned max_candidates results for the buffer, the
\* prediction engine returned a guess of another text that passes the
\* threshold, and the list holds the store's results only.
C33_Witness ==
    /\ last.op = "keyPress" /\ last.ret
    /\ composition_ # <<>>
    /\ Len(dict_candidates) = config_.max_candidates
    /\ Len(predicted_candidates) = 1
    /\ predicted_candidates[1].score >= config_.prediction_threshold
    /\ \A i \in 1..Len(dict_candidates) : dict_candidates[i].text # predicted_candidates[1].text
    /\ candidates_ = dict_candidates

\* Whether every candidate of the prediction engine in a list scores 0.6.
C34_AllBase(list) ==
    \A i \in 1..Len(list) : list[i].is_prediction => list[i].score = 6

\* C34: every candidate of the prediction engine that the controller holds or
\* publishes scores exactly 0.6, the history it keeps stays empty, such
\* candidates come out of a recomputation only when config.prediction_threshold
\* is at most 0.6, and the prediction engine's own threshold stays 0.5.
C34_BaseScoreOnly ==
    /\ C34_AllBase(candidates_)
    /\ C34_AllBase(predicted_candidates)
    /\ \A n \in 1..Len(notes) : C34_AllBase(notes[n].list)
    /\ prediction_engine_.user_patterns_ = <<>>
    /\ prediction_engine_.prediction_threshold_ = 5
    /\ (/\ upd_state # "none"
        /\ \E i \in 1..Len(candidates_) : candidates_[i].is_prediction) =>
           config_.prediction_threshold <= 6

\* C34's case: with config.prediction_threshold above 0.6 the prediction engine,
\* its own threshold still 0.5, returned a guess of 0.6 that the store does not
\* hold, and the published list has no guess.
C34_Witness ==
    /\ last.op = "keyPress" /\ last.ret
    /\ config_.prediction_threshold = 7
    /\ prediction_engine_.prediction_threshold_ = 5
    /\ predicted_candidates # <<>> /\ predicted_candidates[1].score = 6
    /\ \A i \in 1..Len(dict_candidates) : dict_candidates[i].text # predicted_candidates[1].text
    /\ \A i \in 1..Len(candidates_) : ~candidates_[i].is_prediction
    /\ notes # <<>> /\ notes[1] = CandidateNote(candidates_)

C35_IsStateNote(note) == note.type = "state"

\* The state before an operation followed by the states its state-changed
\* notifications carried, in order.
C35_Chain ==
    LET state_notes == SelectSeq(notes', C35_IsStateNote)
    IN  <<state_>> \o [i \in 1..Len(state_notes) |-> state_notes[i].state]

\* C35: a state-changed notification is delivered exactly when the state value
\* changes and carries the new state: each one carries a state other than the
\* one before it, and the last (or, when none is delivered, the state before
\* the operation) is the state the engine is left in. Escape and
\* clearComposition on an IDLE engine deliver none; an accepted letter on a
\* COMPOSING engine delivers SELECTING and then COMPOSING.
C35_StateChangedOnChange ==
    [][/\ \A i \in 1..(Len(C35_Chain) - 1) : C35_Chain[i] # C35_Chain[i + 1]
       /\ C35_Chain[Len(C35_Chain)] = state_'
       /\ (/\ state_ = "IDLE"
           /\ \/ last'.op \in {"clearComposition", "clearCompositionEvent"}
              \/ last'.op = "keyPress" /\ last'.arg = 27) =>
              Len(C35_Chain) = 1
       /\ (/\ state_ = "COMPOSING"
           /\ last'.op = "keyPress" /\ last'.ret /\ IsLetter(CharOf(last'.arg))) =>
              (C35_Chain = <<"COMPOSING", "SELECTING", "COMPOSING">>)
      ]_vars

\* C35's case: a second letter was accepted on a COMPOSING engine, which passed
\* through SELECTING and is COMPOSING again.
C35_Witness ==
    /\ last.op = "keyPress" /\ last.arg = Ord("i") /\ last.ret
    /\ current_pinyin_ = Str("ni")
    /\ state_ = "COMPOSING"
    /\ notes = <<StateNote("SELECTING"), CandidateNote(candidates_), StateNote("COMPOSING")>>

\* C36: initialize() on an existing store leaves every row it finds as it is,
\* adds exactly the built-in words whose (word, pinyin) pair is absent, as
\* system rows with the seed frequency, leaves no pair stored twice, and
\* changes nothing when repeated.
C36_InitializeIdempotent ==
    [][last'.op = "initialize" =>
        /\ words \subseteq words'
        /\ words' \ words =
               {Row(b.word, b.pinyin, SeedFrequency, FALSE) :
                    b \in {x \in basic_words :
                              \A r \in words : ~(r.word = x.word /\ r.pinyin = x.pinyin)}}
        /\ \A r1 \in words' : \A r2 \in words' :
               (r1.word = r2.word /\ r1.pinyin = r2.pinyin) => r1 = r2
        /\ initialize(words') = words'
      ]_vars

\* C36's case: initialize() ran on a store where a built-in word had been made
\* a user word with another frequency, and the row is as it was.
C36_Witness ==
    /\ last.op = "initialize"
    /\ Row(NiHao, Str("ni hao"), 2, TRUE) \in words
    /\ Cardinality(words) >= Cardinality(basic_words)

\* The rows of a store that hold a key.
C37_RowsOf(rows, word, pinyin) == {r \in rows : r.word = word /\ r.pinyin = pinyin}

\* Whether a key is one of the built-in words.
C37_BuiltIn(word, pinyin) == \E b \in basic_words : b.word = word /\ b.pinyin = pinyin

\* C37: addUserWord(w, p, f) on a seeded system pair leaves the one row
\* (w, p, f, user), the earlier frequency gone; from there removeUserWord(w, p)
\* deletes it and so does cleanupLowFrequencyWords(min) with f < min; and a
\* removeUserWord or cleanup step deletes a built-in pair's row once it is a
\* user row.
C37_ReAddedUnprotected ==
    [][/\ (/\ last'.op = "addUserWord"
           /\ C37_BuiltIn(last'.data[1], last'.data[2])
           /\ \E r \in C37_RowsOf(words, last'.data[1], last'.data[2]) : ~r.is_user_word) =>
              LET w == last'.data[1]
                  p == last'.data[2]
                  f == last'.arg
              IN  /\ C37_RowsOf(words', w, p) = {Row(w, p, f, TRUE)}
                  /\ C37_RowsOf(removeUserWord(words', w, p), w, p) = {}
                  /\ \A min \in CleanupThresholds :
                         f < min =>
                             C37_RowsOf(cleanupLowFrequencyWords(words', min).rows, w, p) = {}
       /\ (/\ last'.op = "removeUserWord"
           /\ C37_BuiltIn(last'.data[1], last'.data[2])
           /\ \E r \in C37_RowsOf(words, last'.data[1], last'.data[2]) : r.is_user_word) =>
              C37_RowsOf(words', last'.data[1], last'.data[2]) = {}
       /\ last'.op = "cleanupLowFrequencyWords" =>
              \A r \in words :
                  (C37_BuiltIn(r.word, r.pinyin) /\ r.is_user_word /\ r.frequency < last'.arg) =>
                      C37_RowsOf(words', r.word, r.pinyin) = {}
      ]_vars

\* C37's case: a built-in word had been added again as a user word, and
\* removeUserWord has deleted it: the store no longer holds the pair.
C37_Witness ==
    /\ last.op = "removeUserWord"
    /\ last.data = <<NiHao, Str("ni hao")>>
    /\ C37_RowsOf(words, NiHao, Str("ni hao")) = {}

\* The user rows of a store.
C38_UserRows(rows) == {r \in rows : r.is_user_word}

\* C38: importing the file written by exportUserDictionary into a store just
\* initialized from a new database gives exactly the exported user rows, with the
\* same word, pinyin and frequency, whatever the pinyin (one syllable or several
\* joined by blanks).
C38_RoundTrip ==
    (last.op = "exportUserDictionary" /\ last.data.open) =>
        C38_UserRows(importDictionary(initialize({}), last.data, "txt").rows)
            = C38_UserRows(words)

====
